---- MODULE Spec2Model ----
(***************************************************************************)
(* A model of the pbix-analyzer Streamlit scripts: app.py, app2.py,        *)
(* app_adv.py and app3.py.  Three groups of state are modelled:            *)
(*   - one request (one run of a script on one upload): its position, the  *)
(*     files on disk, the extraction result, the messages and downloads;   *)
(*   - two concurrent requests sharing the disk;                           *)
(*   - the document renderers, as operators over a bounded set of reports. *)
(***************************************************************************)
EXTENDS Integers, Sequences, FiniteSets, TLC

VARIABLES
    \* ---- one request ----
    variant,      \* which script runs: "app", "app2", "app_adv", "app3"
    pc,           \* position of the script
    files,        \* the paths that exist on disk
    created,      \* the temporary upload file has been created by this request
    pathBound,    \* the variable holding the temporary path has been assigned
    extracted,    \* "pending", "none" (None returned) or "report"
    failedAt,     \* "" or the call that raised
    present,      \* keys of the extraction result
    nonEmpty,     \* keys of the extraction result whose value is truthy/non-empty
    shown,        \* messages displayed through st.error / st.warning
    downloads,    \* download buttons offered
    docWritten,   \* app.py: document.save(output_path) has written the .docx
    exc,          \* the message of the exception being propagated, or ""
    uncaught,     \* the script ended with an exception nobody caught
    removes,      \* calls of os.remove / os.unlink on the temporary file
    \* ---- concurrent requests ----
    cvariant,     \* the script the server runs for every session
    cpc,          \* position of each request
    cup,          \* the bytes each request uploaded
    cpath,        \* the path each request stored its upload under
    disk,         \* path -> the file there: whose upload and which bytes
    cread,        \* what each request's analyzer read
    cdeleted,     \* whose file each request's removal deleted
    cerr,         \* the exception each request's removal raised
    cdoc,         \* the upload each request's documents were built from
    \* ---- rendering one report ----
    rvariant,     \* the script whose renderers are applied
    report,       \* the report handed to the renderers
    word,         \* what the Word renderer returned or raised
    pdf,          \* what the PDF renderer returned or raised
    rendered,     \* the formats rendered so far
    again,        \* the formats rendered a second time
    \* ---- app2.py: analysis of one file ----
    pbix_model,           \* what the PBIXRay object returns
    analysis_results,     \* the dict analyze_pbix_file builds
    performance_insights, \* what analyze_performance_and_complexity returns
    aerr,                 \* the exception the analysis raised, or ""
    apc                   \* position: "analyze", "insights", "done"

reqVars == <<variant, pc, files, created, pathBound, extracted, failedAt,
             present, nonEmpty, shown, downloads, docWritten, exc, uncaught,
             removes>>

concVars == <<cvariant, cpc, cup, cpath, disk, cread, cdeleted, cerr, cdoc>>

renderVars == <<rvariant, report, word, pdf, rendered, again>>

anaVars == <<pbix_model, analysis_results, performance_insights, aerr, apc>>

notReq == <<concVars, renderVars, anaVars>>

vars == <<reqVars, concVars, renderVars, anaVars>>

----------------------------------------------------------------------------
(* Bounds *)

\* The most keys a parsed PBIXRay JSON result carries in the request model.
MaxKeys == 2

\* The number of sessions served at the same time.
NumRequests == 2

----------------------------------------------------------------------------
(* The scripts and their analyzer calls *)

Variants == {"app", "app2", "app_adv", "app3"}

\* The path the upload is stored under: NamedTemporaryFile(suffix=".pbix")
\* in app.py, app2.py and app_adv.py, the fixed name "temp.pbix" in app3.py.
TmpPath(v) == IF v = "app3" THEN "temp.pbix" ELSE "tmp.pbix"

\* app.py: tmp_file_path.replace(".pbix", "_documentation.docx")
DocPath == "tmp_documentation.docx"

\* os.path.splitext(uploaded_file.name)[0] for an upload named report.pbix.
UploadStem == "report"

\* The MIME types the scripts pass to st.download_button.
WordMime ==
    "application/vnd.openxmlformats-officedocument.wordprocessingml.document"

PdfMime == "application/pdf"

\* st.download_button(data=..., file_name=..., mime=...); data is named by
\* the format of the bytes the buffer holds.
download_button(data, file_name, mime) ==
    [data |-> data, file_name |-> file_name, mime |-> mime]

\* app_adv.py main: the attributes read from PBIXRay, in the order read,
\* which is also the key order of report_data.
AdvSections == <<"metadata", "schema", "relationships", "power_query",
                 "m_parameters", "dax_tables", "dax_measures">>

\* app2.py analyze_pbix_file: the accessors called, in the order called.
App2Accessors == <<"metadata", "size_bytes", "power_query", "m_parameters",
                   "dax_tables", "tables", "measures", "relationships">>

\* app2.py analyze_pbix_file: the keys of analysis_results.
App2Keys == <<"metadata", "size_bytes", "tables", "relationships", "measures",
              "power_query", "m_parameters", "dax_tables">>

\* app.py extract_pbix_info: the keys of info.
AppKeys == <<"data_model", "pages", "visuals">>

\* app.py extract_pbix_info: the attributes read inside the with block.
AppAccessors == <<"Tables", "Relationships", "Measures", "Pages">>

\* app3.py: the keys the script looks for in the parsed JSON, in the order
\* of the if-chain that builds the sidebar list.
App3Keys == <<"model", "tables", "measures", "relationships", "cultures",
              "datasources", "roles", "expressions", "annotations">>

Range(s) == {s[i] : i \in DOMAIN s}

Accessors(v) ==
    CASE v = "app"     -> Range(AppAccessors)
      [] v = "app2"    -> Range(App2Accessors)
      [] v = "app_adv" -> Range(AdvSections)
      [] OTHER         -> {}

Keys(v) ==
    CASE v = "app"     -> Range(AppKeys)
      [] v = "app2"    -> Range(App2Keys)
      [] v = "app_adv" -> Range(AdvSections)
      [] OTHER         -> Range(App3Keys)

----------------------------------------------------------------------------
(* One request *)

InitReq ==
    /\ variant \in Variants
    /\ pc = "upload"
    /\ files = {}
    /\ created = FALSE
    /\ pathBound = FALSE
    /\ extracted = "pending"
    /\ failedAt = ""
    /\ present = {}
    /\ nonEmpty = {}
    /\ shown = {}
    /\ downloads = {}
    /\ docWritten = FALSE
    /\ exc = ""
    /\ uncaught = FALSE
    /\ removes = 0
    \* the concurrent requests are not part of this specification
    /\ cvariant = "" /\ cpc = <<>> /\ cup = <<>> /\ cpath = <<>>
    /\ disk = <<>> /\ cread = <<>> /\ cdeleted = <<>> /\ cerr = <<>>
    /\ cdoc = <<>>
    /\ rvariant = "" /\ report = <<>> /\ word = <<>> /\ pdf = <<>>
    /\ rendered = {} /\ again = {}
    /\ pbix_model = <<>> /\ analysis_results = <<>>
    /\ performance_insights = <<>> /\ aerr = "" /\ apc = "idle"

\* Where control goes when the statement at the current position raises an
\* exception with message e: app_adv.py wraps the whole of main in
\* try/except; app2.py wraps what follows the with block in
\* try/except/finally; app.py and app3.py run at module level with no
\* handler around the request.
Raise(v, inTry, e) ==
    /\ exc' = e
    /\ IF v = "app_adv" \/ (v = "app2" /\ inTry)
       THEN /\ pc' = "except"
            /\ uncaught' = uncaught
       ELSE /\ pc' = "done"
            /\ uncaught' = TRUE

\* A displayed message: the fixed text and the exception message it embeds.
Msg(text, cause) == <<text, cause>>

\* uploaded_file is None: the script only shows st.info and ends.
NoUpload ==
    /\ pc = "upload"
    /\ pc' = "done"
    /\ UNCHANGED <<variant, files, created, pathBound, extracted, failedAt,
                   present, nonEmpty, shown, downloads, docWritten, exc,
                   uncaught>>
    /\ UNCHANGED <<notReq, removes>>

\* NamedTemporaryFile(delete=False, suffix=".pbix") / open("temp.pbix","wb")
\* creates the file, or raises without creating it.
CreateTemp ==
    /\ pc = "upload"
    /\ \/ /\ files' = files \cup {TmpPath(variant)}
          /\ created' = TRUE
          /\ pc' = "write"
          /\ UNCHANGED <<exc, uncaught>>
       \/ /\ Raise(variant, FALSE, "create")
          /\ UNCHANGED <<files, created>>
    /\ UNCHANGED <<variant, pathBound, extracted, failedAt, present, nonEmpty,
                   shown, downloads, docWritten>>
    /\ UNCHANGED <<notReq, removes>>

\* tmp_file.write(uploaded_file.getvalue()); tmp_file_path = tmp_file.name.
\* The path variable is assigned after the write, so a write that raises
\* leaves the file on disk and the variable unbound (app3.py uses a literal
\* path, bound before the open).
WriteUpload ==
    /\ pc = "write"
    /\ \/ /\ pathBound' = TRUE
          /\ pc' = "extract"
          /\ UNCHANGED <<exc, uncaught>>
       \/ /\ pathBound' = (variant = "app3")
          /\ Raise(variant, FALSE, "write")
    /\ UNCHANGED <<variant, files, created, extracted, failedAt, present,
                   nonEmpty, shown, downloads, docWritten>>
    /\ UNCHANGED <<notReq, removes>>

\* app.py lines 113-115 and 149-150 with extract_pbix_info (lines 19-50):
\* one try/except Exception around the existence check, pbixray.open and
\* every attribute read; any exception is shown and None is returned.
App_Extract ==
    /\ variant = "app" /\ pc = "extract"
    /\ IF TmpPath(variant) \notin files
       THEN /\ shown' = shown \cup {Msg("Error: File not found at", ""),
                                    Msg("Could not extract information", "")}
            /\ extracted' = "none"
            /\ pc' = "cleanup"
            /\ UNCHANGED <<failedAt, present, nonEmpty>>
       ELSE \/ /\ \E f \in {"open"} \cup Accessors(variant) :
                     /\ failedAt' = f
                     /\ shown' = shown \cup
                          {Msg("An error occurred during PBIX analysis:", f),
                           Msg("Could not extract information", "")}
               /\ extracted' = "none"
               /\ pc' = "cleanup"
               /\ UNCHANGED <<present, nonEmpty>>
            \/ /\ \E ne \in SUBSET Keys(variant) : nonEmpty' = ne
               /\ present' = Keys(variant)
               /\ extracted' = "report"
               /\ pc' = "display"
               /\ UNCHANGED <<failedAt, shown>>
    /\ UNCHANGED <<variant, files, created, pathBound, downloads, docWritten,
                   exc, uncaught>>
    /\ UNCHANGED <<notReq, removes>>

\* The same, but the message shown does not carry the exception.
App2_Analyze_fixedMessage ==
    /\ variant = "app2" /\ pc = "extract"
    /\ \/ /\ Raise(variant, TRUE, "st.info")
          /\ UNCHANGED <<failedAt, shown, extracted, present, nonEmpty>>
       \/ /\ \E f \in {"open"} \cup Accessors(variant) :
                /\ failedAt' = f
                /\ shown' = shown \cup
                     {Msg("Error analyzing PBIX file:", ""),
                      Msg("Failed to analyze the PBIX file.", "")}
          /\ extracted' = "none"
          /\ pc' = "finally"
          /\ UNCHANGED <<present, nonEmpty, exc, uncaught>>
       \/ /\ \E ne \in SUBSET Keys(variant) : nonEmpty' = ne
          /\ present' = Keys(variant)
          /\ extracted' = "report"
          /\ pc' = "display"
          /\ UNCHANGED <<failedAt, shown, exc, uncaught>>
    /\ UNCHANGED <<variant, files, created, pathBound, downloads, docWritten>>
    /\ UNCHANGED <<notReq, removes>>

\* app2.py lines 496-500 and 642-643 with analyze_pbix_file (lines 22-101):
\* one try/except Exception around PBIXRay(...) and every accessor call;
\* any exception is shown and None is returned.
App2_Analyze ==
    /\ variant = "app2" /\ pc = "extract"
    /\ \/ /\ Raise(variant, TRUE, "st.info")
          /\ UNCHANGED <<failedAt, shown, extracted, present, nonEmpty>>
       \/ /\ \E f \in {"open"} \cup Accessors(variant) :
                /\ failedAt' = f
                /\ shown' = shown \cup
                     {Msg("Error analyzing PBIX file:", f),
                      Msg("Failed to analyze the PBIX file.", "")}
          /\ extracted' = "none"
          /\ pc' = "finally"
          /\ UNCHANGED <<present, nonEmpty, exc, uncaught>>
       \/ /\ \E ne \in SUBSET Keys(variant) : nonEmpty' = ne
          /\ present' = Keys(variant)
          /\ extracted' = "report"
          /\ pc' = "display"
          /\ UNCHANGED <<failedAt, shown, exc, uncaught>>
    /\ UNCHANGED <<variant, files, created, pathBound, downloads, docWritten>>
    /\ UNCHANGED <<notReq, removes>>

\* app_adv.py main lines 213-254: PBIXRay(tmp_pbix_path) and the seven
\* attribute reads sit directly in main's try block; the first one that
\* raises sends control to the handler at line 279 and nothing is kept.
Adv_Extract ==
    /\ variant = "app_adv" /\ pc = "extract"
    /\ \/ /\ \E f \in {"open"} \cup Accessors(variant) :
                /\ failedAt' = f
                /\ Raise(variant, TRUE, f)
          /\ UNCHANGED <<extracted, present, nonEmpty>>
       \/ /\ \E ne \in SUBSET Keys(variant) : nonEmpty' = ne
          /\ present' = Keys(variant)
          /\ extracted' = "report"
          /\ pc' = "remove"
          /\ UNCHANGED <<failedAt, exc, uncaught>>
    /\ UNCHANGED <<variant, files, created, pathBound, shown, downloads,
                   docWritten>>
    /\ UNCHANGED <<notReq, removes>>

\* The results run_pbixray can hand back: the keys of the parsed JSON object
\* and, among them, those with a truthy value.
ParsedResults ==
    {r \in [keys : SUBSET Range(App3Keys), truthy : SUBSET Range(App3Keys)] :
        /\ r.truthy \subseteq r.keys
        /\ Cardinality(r.keys) <= MaxKeys}

\* app3.py line 496 with run_pbixray (lines 12-34): FileNotFoundError,
\* CalledProcessError and JSONDecodeError are shown and None is returned;
\* any other exception of subprocess.run or json.loads (PermissionError,
\* UnicodeDecodeError, ...) leaves run_pbixray and, there being no handler at
\* module level, ends the script.
App3_Run ==
    /\ variant = "app3" /\ pc = "extract"
    /\ \/ /\ \E r \in ParsedResults :
                /\ present' = r.keys
                /\ nonEmpty' = r.truthy
          /\ extracted' = "report"
          /\ pc' = "remove"
          /\ UNCHANGED <<failedAt, shown, exc, uncaught>>
       \/ /\ failedAt' = "FileNotFoundError"
          /\ shown' = shown \cup {Msg("Error: pbixray command not found.", "")}
          /\ extracted' = "none"
          /\ pc' = "remove"
          /\ UNCHANGED <<present, nonEmpty, exc, uncaught>>
       \/ /\ failedAt' = "CalledProcessError"
          /\ shown' = shown \cup
               {Msg("Error running pbixray:", "CalledProcessError"),
                Msg("Stderr:", "CalledProcessError")}
          /\ extracted' = "none"
          /\ pc' = "remove"
          /\ UNCHANGED <<present, nonEmpty, exc, uncaught>>
       \/ /\ failedAt' = "JSONDecodeError"
          /\ shown' = shown \cup
               {Msg("Error decoding JSON output from pbixray.", "")}
          /\ extracted' = "none"
          /\ pc' = "remove"
          /\ UNCHANGED <<present, nonEmpty, exc, uncaught>>
       \/ /\ failedAt' = "OtherError"
          /\ Raise(variant, FALSE, "OtherError")
          /\ UNCHANGED <<extracted, present, nonEmpty, shown>>
    /\ UNCHANGED <<variant, files, created, pathBound, downloads, docWritten>>
    /\ UNCHANGED <<notReq, removes>>

\* app.py lines 116-129: the three st.json displays and st.button.  None of
\* them is inside a try block.
App_Display ==
    /\ variant = "app" /\ pc = "display"
    /\ \/ /\ \E clicked \in BOOLEAN :
                pc' = IF clicked THEN "generate" ELSE "cleanup"
          /\ UNCHANGED <<exc, uncaught>>
       \/ Raise(variant, FALSE, "display")
    /\ UNCHANGED <<variant, files, created, pathBound, extracted, failedAt,
                   present, nonEmpty, shown, downloads, docWritten>>
    /\ UNCHANGED <<notReq, removes>>

\* app.py lines 130-147 with create_word_documentation (lines 52-95): the
\* document is saved to doc_output_path and offered for download; any
\* exception inside the try block is shown.  Nothing removes the .docx.
App_Generate ==
    /\ variant = "app" /\ pc = "generate"
    /\ \/ /\ shown' = shown \cup
                 {Msg("Error generating documentation:", "render")}
          /\ UNCHANGED <<files, docWritten, downloads>>
       \/ /\ files' = files \cup {DocPath}
          /\ docWritten' = TRUE
          /\ shown' = shown \cup
                 {Msg("Error generating documentation:", "st.success")}
          /\ UNCHANGED downloads
       \/ /\ files' = files \cup {DocPath}
          /\ docWritten' = TRUE
          /\ downloads' = downloads \cup
                 {download_button("word", DocPath, WordMime)}
          /\ UNCHANGED shown
    /\ pc' = "cleanup"
    /\ UNCHANGED <<variant, created, pathBound, extracted, failedAt, present,
                   nonEmpty, exc, uncaught>>
    /\ UNCHANGED <<notReq, removes>>

\* app.py lines 154-159: os.unlink(tmp_file_path) if the path exists; an
\* exception of os.path.exists or os.unlink is shown as a warning.
App_Cleanup ==
    /\ variant = "app" /\ pc = "cleanup"
    /\ \/ /\ files' = files \ {TmpPath(variant)}
          /\ removes' = IF TmpPath(variant) \in files
                         THEN removes + 1 ELSE removes
          /\ UNCHANGED shown
       \/ /\ shown' = shown \cup
                 {Msg("Could not clean up temporary file", "unlink")}
          /\ UNCHANGED <<files, removes>>
    /\ pc' = "done"
    /\ UNCHANGED <<variant, created, pathBound, extracted, failedAt, present,
                   nonEmpty, downloads, docWritten, exc, uncaught>>
    /\ UNCHANGED notReq

\* app2.py lines 501-623: the display of the results, the performance
\* insights, st.radio and st.button, all inside st_app's try block.
App2_Display ==
    /\ variant = "app2" /\ pc = "display"
    /\ \/ /\ \E clicked \in BOOLEAN :
                pc' = IF clicked THEN "generate" ELSE "finally"
          /\ UNCHANGED <<exc, uncaught>>
       \/ Raise(variant, TRUE, "display")
    /\ UNCHANGED <<variant, files, created, pathBound, extracted, failedAt,
                   present, nonEmpty, shown, downloads, docWritten>>
    /\ UNCHANGED <<notReq, removes>>

\* The same, but a PDF whose build failed is offered for download all the
\* same.
App2_Generate_offerAnyway ==
    /\ variant = "app2" /\ pc = "generate"
    /\ \E fmt \in {"word", "pdf"} :
          \/ /\ downloads' = downloads \cup
                    {download_button(
                        fmt,
                        "pbix_documentation."
                            \o (IF fmt = "word" THEN "docx" ELSE "pdf"),
                        IF fmt = "word" THEN WordMime ELSE PdfMime)}
             /\ pc' = "finally"
             /\ UNCHANGED <<failedAt, shown, exc, uncaught>>
          \/ /\ fmt = "pdf"
             /\ failedAt' = "doc.build"
             /\ shown' = shown \cup
                    {Msg("Error building PDF document:", "doc.build"),
                     Msg("Failed to generate documentation.", "")}
             /\ pc' = "finally"
             /\ downloads' = downloads \cup
                    {download_button(
                        fmt,
                        "pbix_documentation."
                            \o (IF fmt = "word" THEN "docx" ELSE "pdf"),
                        IF fmt = "word" THEN WordMime ELSE PdfMime)}
             /\ UNCHANGED <<exc, uncaught>>
          \/ /\ fmt = "word"
             /\ failedAt' = "doc.save"
             /\ Raise(variant, TRUE, "doc.save")
             /\ UNCHANGED <<shown, downloads>>
          \/ /\ Raise(variant, TRUE, "render")
             /\ UNCHANGED <<failedAt, shown, downloads>>
    /\ UNCHANGED <<variant, files, created, pathBound, extracted, present,
                   nonEmpty, docWritten>>
    /\ UNCHANGED <<notReq, removes>>

\* app2.py lines 624-639 with generate_documentation: the content is built
\* for the chosen format and finalized.  doc.build(story) sits in a try
\* block (lines 386-392): its exception is shown, None is returned and
\* st_app shows a second message instead of the download button.
\* doc.save(buffer) (line 235) and the statements that build the content are
\* in no try block of generate_documentation: their exception reaches
\* st_app's handler.
App2_Generate ==
    /\ variant = "app2" /\ pc = "generate"
    /\ \E fmt \in {"word", "pdf"} :
          \/ /\ downloads' = downloads \cup
                    {download_button(
                        fmt,
                        "pbix_documentation."
                            \o (IF fmt = "word" THEN "docx" ELSE "pdf"),
                        IF fmt = "word" THEN WordMime ELSE PdfMime)}
             /\ pc' = "finally"
             /\ UNCHANGED <<failedAt, shown, exc, uncaught>>
          \/ /\ fmt = "pdf"
             /\ failedAt' = "doc.build"
             /\ shown' = shown \cup
                    {Msg("Error building PDF document:", "doc.build"),
                     Msg("Failed to generate documentation.", "")}
             /\ pc' = "finally"
             /\ UNCHANGED downloads
             /\ UNCHANGED <<exc, uncaught>>
          \/ /\ fmt = "word"
             /\ failedAt' = "doc.save"
             /\ Raise(variant, TRUE, "doc.save")
             /\ UNCHANGED <<shown, downloads>>
          \/ /\ Raise(variant, TRUE, "render")
             /\ UNCHANGED <<failedAt, shown, downloads>>
    /\ UNCHANGED <<variant, files, created, pathBound, extracted, present,
                   nonEmpty, docWritten>>
    /\ UNCHANGED <<notReq, removes>>

\* app2.py lines 645-646: except Exception as e: st.error(f"... {e}").
App2_Except ==
    /\ variant = "app2" /\ pc = "except"
    /\ shown' = shown \cup
         {Msg("An error occurred during analysis or documentation generation:",
              exc)}
    /\ exc' = ""
    /\ pc' = "finally"
    /\ UNCHANGED <<variant, files, created, pathBound, extracted, failedAt,
                   present, nonEmpty, downloads, docWritten, uncaught>>
    /\ UNCHANGED <<notReq, removes>>

\* app2.py lines 647-650: finally: os.remove(tmp_file_path) if it exists.
App2_Finally ==
    /\ variant = "app2" /\ pc = "finally"
    /\ files' = files \ {TmpPath(variant)}
    /\ pc' = "done"
    /\ UNCHANGED <<variant, created, pathBound, extracted, failedAt, present,
                   nonEmpty, shown, downloads, docWritten, exc, uncaught>>
    /\ removes' = IF TmpPath(variant) \in files THEN removes + 1 ELSE removes
    /\ UNCHANGED notReq

\* app_adv.py line 257: os.remove(tmp_pbix_path), which raises
\* FileNotFoundError when the path does not exist.
Adv_Remove ==
    /\ variant = "app_adv" /\ pc = "remove"
    /\ IF TmpPath(variant) \in files
       THEN /\ files' = files \ {TmpPath(variant)}
            /\ pc' = "word"
            /\ UNCHANGED <<exc, uncaught>>
       ELSE /\ Raise(variant, TRUE, "FileNotFoundError")
            /\ UNCHANGED files
    /\ UNCHANGED <<variant, created, pathBound, extracted, failedAt, present,
                   nonEmpty, shown, downloads, docWritten>>
    /\ removes' = removes + 1
    /\ UNCHANGED notReq

\* app_adv.py lines 262-268: generate_word_doc and its download button.
Adv_Word ==
    /\ variant = "app_adv" /\ pc = "word"
    /\ \/ /\ downloads' = downloads \cup
                 {download_button("word",
                                  UploadStem \o "_documentation.docx",
                                  WordMime)}
          /\ pc' = "pdf"
          /\ UNCHANGED <<exc, uncaught>>
       \/ /\ Raise(variant, TRUE, "render")
          /\ UNCHANGED downloads
    /\ UNCHANGED <<variant, files, created, pathBound, extracted, failedAt,
                   present, nonEmpty, shown, docWritten>>
    /\ UNCHANGED <<notReq, removes>>

\* app_adv.py lines 270-276: generate_pdf_doc and its download button.
Adv_Pdf ==
    /\ variant = "app_adv" /\ pc = "pdf"
    /\ \/ /\ downloads' = downloads \cup
                 {download_button("pdf",
                                  UploadStem \o "_documentation.pdf",
                                  PdfMime)}
          /\ pc' = "done"
          /\ UNCHANGED <<exc, uncaught>>
       \/ /\ Raise(variant, TRUE, "render")
          /\ UNCHANGED downloads
    /\ UNCHANGED <<variant, files, created, pathBound, extracted, failedAt,
                   present, nonEmpty, shown, docWritten>>
    /\ UNCHANGED <<notReq, removes>>

\* app_adv.py lines 279-283: the handler shows the exception and calls
\* os.remove only if tmp_pbix_path is bound and the path exists.
Adv_Except ==
    /\ variant = "app_adv" /\ pc = "except"
    /\ shown' = shown \cup {Msg("An error occurred:", exc)}
    /\ files' = IF pathBound THEN files \ {TmpPath(variant)} ELSE files
    /\ exc' = ""
    /\ pc' = "done"
    /\ UNCHANGED <<variant, created, pathBound, extracted, failedAt, present,
                   nonEmpty, downloads, docWritten, uncaught>>
    /\ removes' = IF pathBound /\ TmpPath(variant) \in files
                   THEN removes + 1 ELSE removes
    /\ UNCHANGED notReq

\* app3.py line 499: os.remove(temp_file_path), outside any try block.
App3_Remove ==
    /\ variant = "app3" /\ pc = "remove"
    /\ IF TmpPath(variant) \in files
       THEN /\ files' = files \ {TmpPath(variant)}
            /\ pc' = "sections"
            /\ UNCHANGED <<exc, uncaught>>
       ELSE /\ Raise(variant, FALSE, "FileNotFoundError")
            /\ UNCHANGED files
    /\ UNCHANGED <<variant, created, pathBound, extracted, failedAt, present,
                   nonEmpty, shown, downloads, docWritten>>
    /\ removes' = removes + 1
    /\ UNCHANGED notReq

\* app3.py lines 503-521: the sidebar list holds the title of every key that
\* is in pbix_data with a truthy value, in the order of App3Keys.
SidebarSections(keys, truthy) ==
    SelectSeq(App3Keys, LAMBDA k : k \in keys /\ k \in truthy)

\* app3.py lines 501-551 and 569-573: a falsy pbix_data (None, or an empty
\* JSON object) is reported as a failure; a result without any non-empty
\* section gets a warning and no export; otherwise the selected section is
\* displayed.
App3_Sections ==
    /\ variant = "app3" /\ pc = "sections"
    /\ IF extracted # "report" \/ present = {}
       THEN /\ shown' = shown \cup {Msg("Could not analyze the .pbix file.", "")}
            /\ pc' = "done"
            /\ UNCHANGED <<exc, uncaught>>
       ELSE IF SidebarSections(present, nonEmpty) = <<>>
       THEN /\ shown' = shown \cup
                 {Msg("No data found in the PBIX file to display.", "")}
            /\ pc' = "done"
            /\ UNCHANGED <<exc, uncaught>>
       ELSE /\ \/ /\ pc' = "word"
                  /\ UNCHANGED <<exc, uncaught>>
               \/ Raise(variant, FALSE, "display")
            /\ UNCHANGED shown
    /\ UNCHANGED <<variant, files, created, pathBound, extracted, failedAt,
                   present, nonEmpty, downloads, docWritten>>
    /\ UNCHANGED <<notReq, removes>>

\* app3.py lines 552-559: generate_word_doc and its download button.
App3_Word ==
    /\ variant = "app3" /\ pc = "word"
    /\ \/ /\ downloads' = downloads \cup
                 {download_button("word", "pbix_documentation.docx",
                                  WordMime)}
          /\ pc' = "pdf"
          /\ UNCHANGED <<exc, uncaught>>
       \/ /\ Raise(variant, FALSE, "render")
          /\ UNCHANGED downloads
    /\ UNCHANGED <<variant, files, created, pathBound, extracted, failedAt,
                   present, nonEmpty, shown, docWritten>>
    /\ UNCHANGED <<notReq, removes>>

\* app3.py lines 561-568: generate_pdf_doc and its download button.
App3_Pdf ==
    /\ variant = "app3" /\ pc = "pdf"
    /\ \/ /\ downloads' = downloads \cup
                 {download_button("pdf", "pbix_documentation.pdf", PdfMime)}
          /\ pc' = "done"
          /\ UNCHANGED <<exc, uncaught>>
       \/ /\ Raise(variant, FALSE, "render")
          /\ UNCHANGED downloads
    /\ UNCHANGED <<variant, files, created, pathBound, extracted, failedAt,
                   present, nonEmpty, shown, docWritten>>
    /\ UNCHANGED <<notReq, removes>>

NextReq ==
    \/ NoUpload \/ CreateTemp \/ WriteUpload
    \/ App_Extract \/ App_Display \/ App_Generate \/ App_Cleanup
    \/ App2_Analyze \/ App2_Display \/ App2_Generate \/ App2_Except
    \/ App2_Finally
    \/ Adv_Extract \/ Adv_Remove \/ Adv_Word \/ Adv_Pdf \/ Adv_Except
    \/ App3_Run \/ App3_Remove \/ App3_Sections \/ App3_Word \/ App3_Pdf

----------------------------------------------------------------------------
(* Concurrent requests: Streamlit runs every session's script in a thread   *)
(* of its own, in one process with one working directory.                   *)

Requests == 1..NumRequests

\* The contents an upload can have.
Uploads == {"bytes_a", "bytes_b"}

\* The names tempfile.NamedTemporaryFile can pick.
NamePool == {"tmp_x.pbix", "tmp_y.pbix", "tmp_z.pbix"}

Paths == NamePool \cup {"temp.pbix"}

\* No file at a path.
Absent == [owner |-> 0, bytes |-> ""]

InitConc ==
    /\ cvariant \in {"app2", "app3"}
    /\ cpc = [r \in Requests |-> "upload"]
    /\ cup \in [Requests -> Uploads]
    /\ cpath = [r \in Requests |-> ""]
    /\ disk = [p \in Paths |-> Absent]
    /\ cread = [r \in Requests |-> ""]
    /\ cdeleted = [r \in Requests |-> 0]
    /\ cerr = [r \in Requests |-> ""]
    /\ cdoc = [r \in Requests |-> ""]
    \* the single request is not part of this specification
    /\ variant = "" /\ pc = "idle" /\ files = {} /\ created = FALSE
    /\ pathBound = FALSE /\ extracted = "pending" /\ failedAt = ""
    /\ present = {} /\ nonEmpty = {} /\ shown = {} /\ downloads = {}
    /\ docWritten = FALSE /\ exc = "" /\ uncaught = FALSE /\ removes = 0
    /\ rvariant = "" /\ report = <<>> /\ word = <<>> /\ pdf = <<>>
    /\ rendered = {} /\ again = {}
    /\ pbix_model = <<>> /\ analysis_results = <<>>
    /\ performance_insights = <<>> /\ aerr = "" /\ apc = "idle"

\* The paths request r can store its upload under.  app3.py line 489 uses
\* the literal "temp.pbix", relative to the process's working directory.
\* app2.py line 492 asks NamedTemporaryFile, which creates the file
\* exclusively and so never returns the name of a file that exists.
UploadPaths(v, d) ==
    IF v = "app3" THEN {"temp.pbix"} ELSE {n \in NamePool : d[n] = Absent}

\* app3.py lines 489-491, app2.py lines 492-494: the upload is written.
\* open(path, "wb") replaces whatever file is at the path.
CUpload(r) ==
    /\ cpc[r] = "upload"
    /\ \E p \in UploadPaths(cvariant, disk) :
          /\ cpath' = [cpath EXCEPT ![r] = p]
          /\ disk' = [disk EXCEPT ![p] = [owner |-> r, bytes |-> cup[r]]]
    /\ cpc' = [cpc EXCEPT ![r] = "analyze"]
    /\ UNCHANGED <<cvariant, cup, cread, cdeleted, cerr, cdoc>>
    /\ UNCHANGED <<reqVars, renderVars, anaVars>>

\* app3.py line 496, app2.py line 498: the analyzer is given the path and
\* reads whatever file is there at that moment.  app3.py removes the file
\* next and renders afterwards; app2.py renders inside the try block and
\* removes the file in its finally clause.
CAnalyze(r) ==
    /\ cpc[r] = "analyze"
    /\ cread' = [cread EXCEPT ![r] =
                    IF disk[cpath[r]] = Absent THEN "no file"
                    ELSE disk[cpath[r]].bytes]
    /\ cpc' = [cpc EXCEPT ![r] =
                   IF cvariant = "app3" THEN "remove" ELSE "render"]
    /\ UNCHANGED <<cvariant, cup, cpath, disk, cdeleted, cerr, cdoc>>
    /\ UNCHANGED <<reqVars, renderVars, anaVars>>

\* app3.py line 499: os.remove(temp_file_path), unguarded: its exception
\* ends the script before anything is rendered.
\* app2.py lines 649-650: os.remove(tmp_file_path) if os.path.exists.
CRemove(r) ==
    /\ cpc[r] = "remove"
    /\ IF disk[cpath[r]] # Absent
       THEN /\ cdeleted' = [cdeleted EXCEPT ![r] = disk[cpath[r]].owner]
            /\ disk' = [disk EXCEPT ![cpath[r]] = Absent]
            /\ cpc' = [cpc EXCEPT ![r] =
                          IF cvariant = "app3" THEN "render" ELSE "done"]
            /\ UNCHANGED cerr
       ELSE /\ cerr' = [cerr EXCEPT ![r] =
                          IF cvariant = "app3" THEN "FileNotFoundError"
                          ELSE ""]
            /\ cpc' = [cpc EXCEPT ![r] = "done"]
            /\ UNCHANGED <<disk, cdeleted>>
    /\ UNCHANGED <<cvariant, cup, cpath, cread, cdoc>>
    /\ UNCHANGED <<reqVars, renderVars, anaVars>>

\* app3.py lines 552-568, app2.py lines 624-636: the documents are generated
\* from the data the analyzer returned in this run, if it returned any.
CRender(r) ==
    /\ cpc[r] = "render"
    /\ cdoc' = [cdoc EXCEPT ![r] = IF cread[r] \in Uploads THEN cread[r]
                                   ELSE ""]
    /\ cpc' = [cpc EXCEPT ![r] =
                   IF cvariant = "app3" THEN "done" ELSE "remove"]
    /\ UNCHANGED <<cvariant, cup, cpath, disk, cread, cdeleted, cerr>>
    /\ UNCHANGED <<reqVars, renderVars, anaVars>>

NextConc ==
    \E r \in Requests :
        CUpload(r) \/ CAnalyze(r) \/ CRemove(r) \/ CRender(r)

\* One run of one script on one upload.
SpecRequest == InitReq /\ [][NextReq]_vars

\* NumRequests sessions of one script, their steps interleaved.
SpecConc == InitConc /\ [][NextConc]_vars

----------------------------------------------------------------------------
(* The values the renderers are given.                                      *)
(*                                                                          *)
(* A Python dict of scalars is a function from its keys to strings.  An     *)
(* item is one element of a section: its fields, the key it is stored under *)
(* when the section is a dict, and its nested list (the columns of a table, *)
(* the table permissions of a role) if it has one.  A content is the value  *)
(* of one section: None, a dict, a list, a pandas DataFrame or a string.    *)

\* Python's None as a value of a field.
NoneVal == "<None>"

\* str(v) as an f-string applies it.
Str(v) == IF v = NoneVal THEN "None" ELSE v

\* d.get(key, default)
Get(d, key, default) == IF key \in DOMAIN d THEN d[key] ELSE default

\* bool(d.get(key)): a missing key, None and "" are falsy.
FieldTruthy(d, key) == key \in DOMAIN d /\ d[key] \notin {NoneVal, ""}

\* An item without a nested list.
Itm(k, f) == [key |-> k, f |-> f, hasCols |-> FALSE, cols |-> <<>>]

\* An item with a nested list.
ItmC(k, f, cols) == [key |-> k, f |-> f, hasCols |-> TRUE, cols |-> cols]

NoneC == [kind |-> "none", items |-> <<>>, text |-> ""]

DictC(items) == [kind |-> "dict", items |-> items, text |-> ""]

ListC(items) == [kind |-> "list", items |-> items, text |-> ""]

FrameC(items) == [kind |-> "frame", items |-> items, text |-> ""]

StrC(text) == [kind |-> "str", items |-> <<>>, text |-> text]

\* bool(c): None, empty containers and "" are falsy; the truth value of a
\* DataFrame is ambiguous and bool() raises ValueError.
Truth(c) ==
    CASE c.kind = "none"  -> "F"
      [] c.kind = "frame" -> "ValueError"
      [] c.kind = "str"   -> IF c.text = "" THEN "F" ELSE "T"
      [] OTHER            -> IF c.items = <<>> THEN "F" ELSE "T"

\* c is not None and not c.empty: "T" or "F" for a DataFrame and for None;
\* anything else has no attribute empty.
FrameNonEmpty(c) ==
    CASE c.kind = "none"  -> "F"
      [] c.kind = "frame" -> IF c.items = <<>> THEN "F" ELSE "T"
      [] OTHER            -> "AttributeError"

\* A report: an ordered mapping from section keys to contents.
\* order is the insertion order of the keys.

\* key in data
ReportHas(rep, key) == key \in Range(rep.order)

\* data.get(key)
ReportGet(rep, key) == IF ReportHas(rep, key) THEN rep.val[key] ELSE NoneC

----------------------------------------------------------------------------
(* The documents the renderers build.                                       *)
(*                                                                          *)
(* A document is the sequence of the elements added to it.  A renderer      *)
(* returns the document, or raises: err names the exception and doc is what *)
(* had been added until then.                                               *)

\* The text of an f-string: its pieces joined.
RECURSIVE Cat(_)
Cat(ps) == IF ps = <<>> THEN "" ELSE Head(ps) \o Cat(Tail(ps))

El(t, level, text, rows, size, bold) ==
    [t |-> t, level |-> level, x |-> text, rows |-> rows, size |-> size,
     bold |-> bold]

\* document.add_heading(text, level)
H(level, text) == El("h", level, Cat(text), <<>>, 0, FALSE)

\* document.add_paragraph(text)
P(text) == El("p", 0, Cat(text), <<>>, 0, FALSE)

\* document.add_paragraph(text, style='List Bullet')
Bullet(text) == El("bullet", 0, Cat(text), <<>>, 0, FALSE)

\* doc.add_table(...) with its cells filled in
Tbl(rows) == El("table", 0, "", rows, 0, FALSE)

Ok(elems) == [err |-> "", doc |-> elems]

Fail(e) == [err |-> e, doc |-> <<>>]

\* Statement sequencing: b runs only if a did not raise.
Then(a, b) ==
    IF a.err # "" THEN a ELSE [err |-> b.err, doc |-> a.doc \o b.doc]

\* A sequence of statements, or the iterations of a loop, run in order.
RECURSIVE Chain(_)
Chain(rs) == IF rs = <<>> THEN Ok(<<>>) ELSE Then(Head(rs), Chain(Tail(rs)))

\* for x in c: <body>, where c is truthy and the body calls x.get(...) or
\* x[...] or the loop calls c.items(): the iterations run if c is of one of
\* the kinds the loop is written for, and e is raised otherwise.
Iter(c, kinds, iterations, e) ==
    IF c.kind \in kinds THEN Chain(iterations) ELSE Fail(e)

\* if <test>: <body> else: <orelse>, where the test may raise.
IfElse(test, body, orelse) ==
    CASE test = "T" -> body
      [] test = "F" -> orelse
      [] OTHER      -> Fail(test)

\* The level-1 headings of a document, in order.
Headings(doc) ==
    LET hs == SelectSeq(doc, LAMBDA e : e.t = "h" /\ e.level = 1)
    IN  [i \in 1..Len(hs) |-> hs[i].x]
----------------------------------------------------------------------------
(* app_adv.py generate_word_doc *)

\* Lines 19-25.
AdvWordMetadata(rep) ==
    LET c == ReportGet(rep, "metadata")
    IN  Then(Ok(<<H(1, <<"Metadata">>)>>),
             IfElse(Truth(c),
                    Iter(c, {"dict"},
                         [i \in 1..Len(c.items) |->
                             Ok(<<P(<<c.items[i].key, ": ",
                                      Str(c.items[i].f["value"])>>)>>)],
                         "AttributeError"),
                    Ok(<<P(<<"No metadata available.">>)>>)))

\* Lines 27-39.
AdvWordSchema(rep) ==
    LET c == ReportGet(rep, "schema")
        \* lines 32-37
        columns(table) ==
            IF table.hasCols /\ table.cols # <<>>
            THEN <<P(<<"Columns:">>)>>
                 \o [j \in 1..Len(table.cols) |->
                       P(<<"- ", Str(Get(table.cols[j].f, "name", "N/A")),
                           " (",
                           Str(Get(table.cols[j].f, "dataType", "N/A")),
                           ")">>)]
            ELSE <<P(<<"No columns found for this table.">>)>>
    IN  Then(Ok(<<H(1, <<"Schema">>)>>),
             IfElse(Truth(c),
                    Iter(c, {"list"},
                         [i \in 1..Len(c.items) |->
                             Ok(<<H(2, <<"Table: ",
                                         Str(Get(c.items[i].f, "name",
                                                 "N/A"))>>)>>
                                \o columns(c.items[i]))],
                         "AttributeError"),
                    Ok(<<P(<<"No schema information available.">>)>>)))

\* Lines 41-47.
AdvWordRelationships(rep) ==
    LET c == ReportGet(rep, "relationships")
        field(i, key) == Str(Get(c.items[i].f, key, "N/A"))
    IN  Then(Ok(<<H(1, <<"Relationships">>)>>),
             IfElse(FrameNonEmpty(c),
                    Ok([i \in 1..Len(c.items) |->
                          P(<<"From Table: ", field(i, "fromTable"),
                              ", From Column: ", field(i, "fromColumn"),
                              ", To Table: ", field(i, "toTable"),
                              ", To Column: ", field(i, "toColumn")>>)]),
                    Ok(<<P(<<"No relationships available.">>)>>)))

\* Lines 49-58, 68-77, 79-88: Power Query Code, DAX Tables, DAX Measures:
\* the name of each record and, if it has a truthy expression, the
\* expression.
AdvWordNamed(rep, key, title, placeholder) ==
    LET c == ReportGet(rep, key)
        record(rec) ==
            <<P(<<"Name: ", Str(Get(rec.f, "name", "N/A"))>>)>>
            \o IF FieldTruthy(rec.f, "expression")
               THEN <<P(<<"Expression:">>), P(<<rec.f["expression"]>>)>>
               ELSE <<>>
    IN  Then(Ok(<<H(1, <<title>>)>>),
             IfElse(FrameNonEmpty(c),
                    Chain([i \in 1..Len(c.items) |-> Ok(record(c.items[i]))]),
                    Ok(<<P(<<placeholder>>)>>)))

\* Lines 60-66.
AdvWordParameters(rep) ==
    LET c == ReportGet(rep, "m_parameters")
    IN  Then(Ok(<<H(1, <<"M Parameters">>)>>),
             IfElse(FrameNonEmpty(c),
                    Ok([i \in 1..Len(c.items) |->
                          P(<<"Name: ",
                              Str(Get(c.items[i].f, "name", "N/A")),
                              ", Value: ",
                              Str(Get(c.items[i].f, "value", "N/A"))>>)]),
                    Ok(<<P(<<"No M parameters available.">>)>>)))

\* Lines 19-88: the sections in the order the function writes them.
AdvWordSections(rep) ==
    <<AdvWordMetadata(rep),
      AdvWordSchema(rep),
      AdvWordRelationships(rep),
      AdvWordNamed(rep, "power_query", "Power Query Code",
                   "No Power Query code available."),
      AdvWordParameters(rep),
      AdvWordNamed(rep, "dax_tables", "DAX Tables",
                   "No DAX tables available."),
      AdvWordNamed(rep, "dax_measures", "DAX Measures",
                   "No DAX measures available.")>>

\* app_adv.py generate_word_doc, lines 13-93.
Adv_generate_word_doc(rep) ==
    Then(Ok(<<H(0, <<"Power BI Report Documentation">>)>>),
         Chain(AdvWordSections(rep)))
----------------------------------------------------------------------------
(* app3.py generate_word_doc *)

\* A run of document.add_paragraph(f"<label>{rec.get(<key>, 'N/A')}").
Lines(rec, pairs) ==
    [i \in 1..Len(pairs) |->
        P(<<pairs[i][1], Str(Get(rec.f, pairs[i][2], "N/A"))>>)]

\* 'key' in data and data['key']: app3.py reads parsed JSON, which has no
\* DataFrame.
Present(rep, key) == ReportHas(rep, key) /\ Truth(ReportGet(rep, key)) = "T"

\* model_data.get(key, 'N/A') on the model dict.
DictGet(c, key, default) ==
    IF \E i \in 1..Len(c.items) : c.items[i].key = key
    THEN LET i == CHOOSE j \in 1..Len(c.items) : c.items[j].key = key
         IN  c.items[i].f["value"]
    ELSE default

\* Lines 214-221.
App3WordModel(rep) ==
    LET c == ReportGet(rep, "model")
        line(label, key) == P(<<label, Str(DictGet(c, key, "N/A"))>>)
    IN  IF ~Present(rep, "model") THEN Ok(<<>>)
        ELSE Then(Ok(<<H(1, <<"Model Information">>)>>),
                  IF c.kind # "dict" THEN Fail("AttributeError")
                  ELSE Ok(<<line("Name: ", "name"),
                            line("Culture: ", "culture"),
                            line("Default Mode: ", "defaultMode"),
                            line("Description: ", "description"),
                            line("Modified Time: ", "modifiedTime")>>))

\* Line 236.
column_order ==
    <<"name", "dataType", "description", "isHidden", "dataCategory",
      "summarizeBy", "displayFolder", "formatString", "lineageTag">>

\* Lines 235-238: the columns as one paragraph holding a markdown table of
\* the known keys that some column has; a key a column lacks is a nan cell.
to_markdown(cols) ==
    LET existing == SelectSeq(column_order, LAMBDA k :
                        \E i \in 1..Len(cols) : k \in DOMAIN cols[i].f)
    IN  El("markdown", 0, "",
           <<existing>>
           \o [i \in 1..Len(cols) |->
                 [j \in 1..Len(existing) |->
                     Str(Get(cols[i].f, existing[j], "nan"))]],
           0, FALSE)

\* The body of the loop over the elements of a list section.
App3WordItem(key, it) ==
    CASE key = "tables" ->
           \* lines 227-238: table['name'] raises KeyError when missing
           IF "name" \notin DOMAIN it.f THEN Fail("KeyError")
           ELSE Ok(<<H(2, <<"Table: ", Str(it.f["name"])>>)>>
                   \o Lines(it, <<<<"Description: ", "description">>,
                                  <<"Hidden: ", "isHidden">>,
                                  <<"Data Category: ", "dataCategory">>,
                                  <<"Lineage Tag: ", "lineageTag">>>>)
                   \o IF it.hasCols /\ it.cols # <<>>
                      THEN <<P(<<"Columns:">>), to_markdown(it.cols)>>
                      ELSE <<>>)
      [] key = "measures" ->
           \* lines 243-251: measure['name'] and measure['expression'] raise
           \* KeyError when missing
           IF "name" \notin DOMAIN it.f THEN Fail("KeyError")
           ELSE Then(Ok(<<H(2, <<"Measure: ", Str(it.f["name"])>>)>>),
                IF "expression" \notin DOMAIN it.f THEN Fail("KeyError")
                ELSE Ok(<<P(<<"Expression: ", Str(it.f["expression"])>>)>>
                        \o Lines(it,
                             <<<<"Description: ", "description">>,
                               <<"Display Folder: ", "displayFolder">>,
                               <<"Format String: ", "formatString">>,
                               <<"Hidden: ", "isHidden">>,
                               <<"Data Category: ", "dataCategory">>,
                               <<"Display Format: ", "displayFormat">>,
                               <<"Lineage Tag: ", "lineageTag">>>>)))
      [] key = "relationships" ->
           \* lines 257-268
           Ok(<<H(2, <<"Relationship: ", Str(Get(it.f, "name", "N/A"))>>)>>
              \o Lines(it,
                   <<<<"From Table: ", "fromTable">>,
                     <<"From Column: ", "fromColumn">>,
                     <<"To Table: ", "toTable">>,
                     <<"To Column: ", "toColumn">>,
                     <<"Join On Date Behavior: ", "joinOnDateBehavior">>,
                     <<"State: ", "state">>,
                     <<"Type: ", "type">>,
                     <<"Cross Filtering Behavior: ",
                       "crossFilteringBehavior">>,
                     <<"Active: ", "isActive">>,
                     <<"Security Filtering Behavior: ",
                       "securityFilteringBehavior">>,
                     <<"Lineage Tag: ", "lineageTag">>>>))
      [] key = "cultures" ->
           \* lines 274-278
           Ok(<<H(2, <<"Culture: ", Str(Get(it.f, "name", "N/A"))>>)>>
              \o Lines(it, <<<<"Language: ", "language">>>>)
              \o IF FieldTruthy(it.f, "linguisticMetadata")
                 THEN <<P(<<"Linguistic Metadata:">>),
                        P(<<it.f["linguisticMetadata"]>>)>>
                 ELSE <<>>)
      [] key = "datasources" ->
           \* lines 283-289
           Ok(<<H(2, <<"Data Source: ", Str(Get(it.f, "name", "N/A"))>>)>>
              \o Lines(it, <<<<"Type: ", "type">>,
                             <<"Connection String: ", "connectionString">>,
                             <<"Datasource Type: ", "datasourceType">>,
                             <<"Gateway: ", "gateway">>,
                             <<"Server: ", "server">>,
                             <<"Database: ", "database">>>>))
      [] key = "roles" ->
           \* lines 295-302
           Ok(<<H(2, <<"Role: ", Str(Get(it.f, "name", "N/A"))>>)>>
              \o Lines(it, <<<<"Model Permission: ", "modelPermission">>>>)
              \o IF it.hasCols /\ it.cols # <<>>
                 THEN <<P(<<"Table Permissions:">>)>>
                      \o Chain([j \in 1..Len(it.cols) |->
                           Ok(Lines(it.cols[j],
                                <<<<"- Table: ", "name">>,
                                  <<"  - Filter Expression: ",
                                    "filterExpression">>,
                                  <<"  - Rows Access: ",
                                    "rowsAccess">>>>))]).doc
                 ELSE <<>>)
      [] key = "expressions" ->
           \* lines 307-311
           Ok(<<H(2, <<"Expression: ", Str(Get(it.f, "name", "N/A"))>>)>>
              \o Lines(it, <<<<"Kind: ", "kind">>,
                             <<"Expression: ", "expression">>,
                             <<"Hidden: ", "isHidden">>,
                             <<"Lineage Tag: ", "lineageTag">>>>))
      [] OTHER ->
           \* lines 317-318: annotations
           Ok(<<H(2, <<"Annotation: ", Str(Get(it.f, "name", "N/A"))>>)>>
              \o Lines(it, <<<<"Value: ", "value">>>>))

\* One list section: nothing at all unless the key is present and truthy;
\* e is what a truthy value that is not a list of dicts raises.
App3WordList(rep, key, title, e) ==
    LET c == ReportGet(rep, key)
    IN  IF ~Present(rep, key) THEN Ok(<<>>)
        ELSE Then(Ok(<<H(1, <<title>>)>>),
                  Iter(c, {"list"},
                       [i \in 1..Len(c.items) |->
                           App3WordItem(key, c.items[i])], e))

\* Lines 214-318: the sections in the order the function writes them.
App3WordSections(rep) ==
    <<App3WordModel(rep),
      App3WordList(rep, "tables", "Tables", "TypeError"),
      App3WordList(rep, "measures", "Measures", "TypeError"),
      App3WordList(rep, "relationships", "Relationships", "AttributeError"),
      App3WordList(rep, "cultures", "Cultures", "AttributeError"),
      App3WordList(rep, "datasources", "Data Sources", "AttributeError"),
      App3WordList(rep, "roles", "Roles", "AttributeError"),
      App3WordList(rep, "expressions", "Expressions", "AttributeError"),
      App3WordList(rep, "annotations", "Annotations", "AttributeError")>>

\* app3.py generate_word_doc, lines 209-324.
App3_generate_word_doc(rep) ==
    Then(Ok(<<H(0, <<"PBIX Documentation">>)>>),
         Chain(App3WordSections(rep)))
----------------------------------------------------------------------------
(* app2.py generate_documentation, output_format == 'Word' *)

\* Lines 119-125.
App2WordMetadata(rep) ==
    LET c == ReportGet(rep, "metadata")
    IN  Then(Ok(<<H(1, <<"Metadata">>)>>),
             IfElse(Truth(c),
                    Iter(c, {"dict"},
                         [i \in 1..Len(c.items) |->
                             Ok(<<P(<<"**", c.items[i].key, ":** ",
                                      Str(c.items[i].f["value"])>>)>>)],
                         "AttributeError"),
                    Ok(<<P(<<"No metadata available.">>)>>)))

\* Lines 133-155: one table: its heading and the table of its columns, a
\* header row and one row per column.
App2WordTable(table) ==
    LET row(col) ==
            <<col.key,
              Str(Get(col.f, "data_type", "N/A")),
              Str(Get(col.f, "is_hidden", "N/A")),
              Str(Get(col.f, "source_column", "N/A")),
              Str(Get(col.f, "summarization_function", "N/A")),
              IF FieldTruthy(col.f, "expression")
              THEN col.f["expression"] ELSE "">>
    IN  <<H(2, <<"Table: ", table.key, " (Rows: ",
                 Str(Get(table.f, "row_count", "N/A")), ")">>),
          H(3, <<"Columns">>),
          IF table.hasCols /\ table.cols # <<>>
          THEN Tbl(<<<<"Name", "Data Type", "Is Hidden", "Source Column",
                       "Summarization", "Expression">>>>
                   \o [i \in 1..Len(table.cols) |-> row(table.cols[i])])
          ELSE P(<<"No columns found for this table.">>)>>

\* Lines 128-157.
App2WordTables(rep) ==
    LET c == ReportGet(rep, "tables")
    IN  Then(Ok(<<H(1, <<"Tables">>)>>),
             IfElse(Truth(c),
                    Then(Ok(<<P(<<"Number of Tables: ",
                                  ToString(Len(c.items))>>)>>),
                         Iter(c, {"dict"},
                              [i \in 1..Len(c.items) |->
                                  Ok(App2WordTable(c.items[i]))],
                              "AttributeError")),
                    Ok(<<P(<<"No tables found.">>)>>)))

\* Lines 160-171.
App2WordMeasures(rep) ==
    LET c == ReportGet(rep, "measures")
        measure(m) ==
            <<H(2, <<"Measure: ", m.key>>)>>
            \o Lines(m, <<<<"**Expression:** ", "expression">>,
                          <<"**Display Folder:** ", "display_folder">>,
                          <<"**Format String:** ", "format_string">>,
                          <<"**Is Hidden:** ", "is_hidden">>>>)
    IN  Then(Ok(<<H(1, <<"Measures">>)>>),
             IfElse(Truth(c),
                    Then(Ok(<<P(<<"Number of Measures: ",
                                  ToString(Len(c.items))>>)>>),
                         Iter(c, {"dict"},
                              [i \in 1..Len(c.items) |->
                                  Ok(measure(c.items[i]))],
                              "AttributeError")),
                    Ok(<<P(<<"No measures found.">>)>>)))

\* Lines 174-198: a table with a header row and one row per relationship.
App2WordRelationships(rep) ==
    LET c == ReportGet(rep, "relationships")
        row(rel) ==
            <<Str(Get(rel.f, "name", "N/A")),
              Str(Get(rel.f, "from_table", "N/A")),
              Str(Get(rel.f, "from_column", "N/A")),
              Str(Get(rel.f, "to_table", "N/A")),
              Str(Get(rel.f, "to_column", "N/A")),
              Str(Get(rel.f, "model", "N/A")),
              Str(Get(rel.f, "active", "N/A")),
              Str(Get(rel.f, "cross_filter_direction", "N/A"))>>
    IN  Then(Ok(<<H(1, <<"Relationships">>)>>),
             IfElse(Truth(c),
                    Then(Ok(<<P(<<"Number of Relationships: ",
                                  ToString(Len(c.items))>>)>>),
                         Iter(c, {"list"},
                              <<Ok(<<Tbl(<<<<"Name", "From Table",
                                             "From Column", "To Table",
                                             "To Column", "Model", "Active",
                                             "Cross Filter Direction">>>>
                                         \o [i \in 1..Len(c.items) |->
                                               row(c.items[i])])>>)>>,
                              "AttributeError")),
                    Ok(<<P(<<"No relationships found.">>)>>)))

\* text.strip() is empty.
IsBlank(text) == text \in {"", " "}

\* Lines 201-207: a missing key reads as the default string; a truthy value
\* that is not a string has no strip().
App2WordPowerQuery(rep) ==
    LET power_query == IF ReportHas(rep, "power_query")
                       THEN ReportGet(rep, "power_query")
                       ELSE StrC("No M code found.")
        test == IF Truth(power_query) # "T" THEN Truth(power_query)
                ELSE IF power_query.kind # "str" THEN "AttributeError"
                ELSE IF IsBlank(power_query.text) THEN "F" ELSE "T"
    IN  Then(Ok(<<H(1, <<"Power Query (M Code)">>)>>),
             IfElse(test,
                    Ok(<<P(<<"M Code:">>), P(<<power_query.text>>)>>),
                    Ok(<<P(<<"No Power Query (M Code) found.">>)>>)))

\* Lines 210-218.
App2WordParameters(rep) ==
    LET c == ReportGet(rep, "m_parameters")
        field(i, key) == Str(Get(c.items[i].f, key, "N/A"))
    IN  Then(Ok(<<H(1, <<"M Parameters">>)>>),
             IfElse(Truth(c),
                    Then(Ok(<<P(<<"Number of M Parameters: ",
                                  ToString(Len(c.items))>>)>>),
                         Iter(c, {"list"},
                              [i \in 1..Len(c.items) |->
                                  Ok(<<P(<<"- Name: ", field(i, "name"),
                                           ", Value: ", field(i, "value"),
                                           ", Data Type: ",
                                           field(i, "dataType")>>)>>)],
                              "AttributeError")),
                    Ok(<<P(<<"No M Parameters found.">>)>>)))

\* Lines 221-231.
App2WordDaxTables(rep) ==
    LET c == ReportGet(rep, "dax_tables")
        dax_table(t) ==
            <<H(2, <<"DAX Table: ", t.key>>)>>
            \o Lines(t, <<<<"**Expression:** ", "expression">>,
                          <<"**Display Folder:** ", "display_folder">>,
                          <<"**Is Hidden:** ", "is_hidden">>>>)
    IN  Then(Ok(<<H(1, <<"DAX Tables">>)>>),
             IfElse(Truth(c),
                    Then(Ok(<<P(<<"Number of DAX Tables: ",
                                  ToString(Len(c.items))>>)>>),
                         Iter(c, {"dict"},
                              [i \in 1..Len(c.items) |->
                                  Ok(dax_table(c.items[i]))],
                              "AttributeError")),
                    Ok(<<P(<<"No DAX Tables found.">>)>>)))

\* Lines 119-231: the sections in the order the Word branch writes them.
App2WordSections(rep) ==
    <<App2WordMetadata(rep), App2WordTables(rep), App2WordMeasures(rep),
      App2WordRelationships(rep), App2WordPowerQuery(rep),
      App2WordParameters(rep), App2WordDaxTables(rep)>>

\* app2.py generate_documentation, lines 114-237.
App2_generate_documentation_Word(rep) ==
    Then(Ok(<<H(0, <<"PBIX File Documentation">>)>>),
         Chain(App2WordSections(rep)))

----------------------------------------------------------------------------
(* app.py create_word_documentation *)

\* section.replace('_', ' ').title() on the strings the reports use.
TitleCase(s) ==
    CASE s = "data_model"    -> "Data Model"
      [] s = "pages"         -> "Pages"
      [] s = "visuals"       -> "Visuals"
      [] s = "tables"        -> "Tables"
      [] s = "relationships" -> "Relationships"
      [] s = "measures"      -> "Measures"
      [] OTHER               -> s

\* str(item) of a list element or of a dict value.
Repr(f) == IF DOMAIN f = {"value"} THEN Str(f["value"]) ELSE "{...}"

\* Lines 68-85: one section.
AppWordSection(section, details) ==
    LET \* lines 76-82: one entry of a dict section
        entry(it) ==
            <<H(2, <<TitleCase(it.key)>>)>>
            \o IF it.hasCols
               THEN [i \in 1..Len(it.cols) |-> Bullet(<<Repr(it.cols[i].f)>>)]
               ELSE <<P(<<Repr(it.f)>>)>>
    IN  <<H(1, <<TitleCase(section)>>)>>
        \o CASE details.kind = "list" ->
                  [i \in 1..Len(details.items) |->
                      Bullet(<<Repr(details.items[i].f)>>)]
             [] details.kind = "dict" ->
                  Chain([i \in 1..Len(details.items) |->
                            Ok(entry(details.items[i]))]).doc
             [] details.kind = "none" -> <<P(<<"None">>)>>
             [] details.kind = "str"  -> <<P(<<details.text>>)>>
             [] OTHER                 -> <<P(<<"<DataFrame>">>)>>

\* Lines 88-91.
AppNote ==
    "Note: Detailed information for some sections (e.g., specific visual configurations) may require deeper parsing and are represented with placeholders if not fully extracted."

\* create_word_documentation walking the keys in the order extract_pbix_info
\* inserts them instead of the order of the dict it is given.
App_create_word_documentation_keyOrder(rep) ==
    LET keys == SelectSeq(AppKeys, LAMBDA k : ReportHas(rep, k))
    IN  Then(Ok(<<H(0, <<"PBIX File Documentation">>)>>),
             Then(Chain([i \in 1..Len(keys) |->
                      Ok(AppWordSection(keys[i], rep.val[keys[i]]))]),
                  Ok(<<P(<<AppNote>>)>>)))

\* app.py create_word_documentation, lines 52-95: the sections in the
\* insertion order of pbix_info, then the note.
App_create_word_documentation(rep) ==
    Then(Ok(<<H(0, <<"PBIX File Documentation">>)>>),
         Then(Chain([i \in 1..Len(rep.order) |->
                  Ok(AppWordSection(rep.order[i], rep.val[rep.order[i]]))]),
              Ok(<<P(<<AppNote>>)>>)))
----------------------------------------------------------------------------
(* app_adv.py generate_pdf_doc *)

\* draw_text, lines 104-107: the text as given, in the given size.
DrawText(text, size, bold) == El("text", 0, Cat(text), <<>>, size, bold)

\* draw_paragraph, lines 109-122: one line, cut to 100 characters and "..."
\* when longer.
DrawParagraph(text) ==
    LET s == Cat(text)
    IN  El("para", 0,
           IF Len(s) > 100 THEN SubSeq(s, 1, 100) \o "..." ELSE s,
           <<>>, 10, FALSE)

\* Lines 126-131.
AdvPdfMetadata(rep) ==
    LET c == ReportGet(rep, "metadata")
    IN  Then(Ok(<<DrawText(<<"Metadata">>, 14, TRUE)>>),
             IfElse(Truth(c),
                    Iter(c, {"dict"},
                         [i \in 1..Len(c.items) |->
                             Ok(<<DrawParagraph(<<c.items[i].key, ": ",
                                     Str(c.items[i].f["value"])>>)>>)],
                         "AttributeError"),
                    Ok(<<DrawParagraph(<<"No metadata available.">>)>>)))

\* Lines 134-145.
AdvPdfSchema(rep) ==
    LET c == ReportGet(rep, "schema")
        \* lines 137-143: one table
        drawn(table) ==
            <<DrawText(<<"Table: ", Str(Get(table.f, "name", "N/A"))>>,
                       12, TRUE)>>
            \o IF table.hasCols /\ table.cols # <<>>
               THEN <<DrawText(<<"Columns:">>, 10, FALSE)>>
                    \o [j \in 1..Len(table.cols) |->
                          DrawParagraph(<<"- ",
                              Str(Get(table.cols[j].f, "name", "N/A")), " (",
                              Str(Get(table.cols[j].f, "dataType", "N/A")),
                              ")">>)]
               ELSE <<DrawParagraph(<<"No columns found for this table.">>)>>
    IN  Then(Ok(<<DrawText(<<"Schema">>, 14, TRUE)>>),
             IfElse(Truth(c),
                    Iter(c, {"list"},
                         [i \in 1..Len(c.items) |-> Ok(drawn(c.items[i]))],
                         "AttributeError"),
                    Ok(<<DrawParagraph(
                           <<"No schema information available.">>)>>)))

\* A PDF relationships section that shows no placeholder when the frame is
\* empty.
AdvPdfRelationships_noPlaceholder(rep) ==
    LET c == ReportGet(rep, "relationships")
        field(i, key) == Str(Get(c.items[i].f, key, "N/A"))
    IN  Then(Ok(<<DrawText(<<"Relationships">>, 14, TRUE)>>),
             IfElse(FrameNonEmpty(c),
                    Ok([i \in 1..Len(c.items) |->
                          DrawParagraph(
                              <<"From Table: ", field(i, "fromTable"),
                                ", From Column: ", field(i, "fromColumn"),
                                ", To Table: ", field(i, "toTable"),
                                ", To Column: ", field(i, "toColumn")>>)]),
                    Ok(<<>>)))

\* Lines 148-153.
AdvPdfRelationships(rep) ==
    LET c == ReportGet(rep, "relationships")
        field(i, key) == Str(Get(c.items[i].f, key, "N/A"))
    IN  Then(Ok(<<DrawText(<<"Relationships">>, 14, TRUE)>>),
             IfElse(FrameNonEmpty(c),
                    Ok([i \in 1..Len(c.items) |->
                          DrawParagraph(
                              <<"From Table: ", field(i, "fromTable"),
                                ", From Column: ", field(i, "fromColumn"),
                                ", To Table: ", field(i, "toTable"),
                                ", To Column: ", field(i, "toColumn")>>)]),
                    Ok(<<DrawParagraph(<<"No relationships available.">>)>>)))

\* Lines 156-164, 175-183, 186-194: Power Query Code, DAX Tables, DAX
\* Measures.
AdvPdfNamed(rep, key, title, placeholder) ==
    LET c == ReportGet(rep, key)
        record(rec) ==
            <<DrawParagraph(<<"Name: ", Str(Get(rec.f, "name", "N/A"))>>)>>
            \o IF FieldTruthy(rec.f, "expression")
               THEN <<DrawText(<<"Expression:">>, 10, FALSE),
                      DrawParagraph(<<rec.f["expression"]>>)>>
               ELSE <<>>
    IN  Then(Ok(<<DrawText(<<title>>, 14, TRUE)>>),
             IfElse(FrameNonEmpty(c),
                    Chain([i \in 1..Len(c.items) |-> Ok(record(c.items[i]))]),
                    Ok(<<DrawParagraph(<<placeholder>>)>>)))

\* Lines 167-172.
AdvPdfParameters(rep) ==
    LET c == ReportGet(rep, "m_parameters")
    IN  Then(Ok(<<DrawText(<<"M Parameters">>, 14, TRUE)>>),
             IfElse(FrameNonEmpty(c),
                    Ok([i \in 1..Len(c.items) |->
                          DrawParagraph(<<"Name: ",
                              Str(Get(c.items[i].f, "name", "N/A")),
                              ", Value: ",
                              Str(Get(c.items[i].f, "value", "N/A"))>>)]),
                    Ok(<<DrawParagraph(<<"No M parameters available.">>)>>)))

\* Lines 126-194: the sections in the order the function draws them.
AdvPdfSections(rep) ==
    <<AdvPdfMetadata(rep),
      AdvPdfSchema(rep),
      AdvPdfRelationships(rep),
      AdvPdfNamed(rep, "power_query", "Power Query Code",
                  "No Power Query code available."),
      AdvPdfParameters(rep),
      AdvPdfNamed(rep, "dax_tables", "DAX Tables",
                  "No DAX tables available."),
      AdvPdfNamed(rep, "dax_measures", "DAX Measures",
                  "No DAX measures available.")>>

\* app_adv.py generate_pdf_doc, lines 95-198; the title (line 101) is drawn
\* in the canvas's initial font.
Adv_generate_pdf_doc(rep) ==
    Then(Ok(<<DrawText(<<"Power BI Report Documentation">>, 12, FALSE)>>),
         Chain(AdvPdfSections(rep)))

\* reportlab.lib.pagesizes.letter is 612 by 792 points.
PageHeight == 792

\* Lines 102, 107, 122: the y position at which element i of the drawing is
\* placed; the title is at height - 50, the first section at height - 100,
\* and each draw moves the cursor down by its size plus 5.
RECURSIVE y_position(_, _)
y_position(doc, i) ==
    IF i = 1 THEN PageHeight - 50
    ELSE IF i = 2 THEN PageHeight - 100
    ELSE y_position(doc, i - 1) - doc[i - 1].size - 5

----------------------------------------------------------------------------
(* app3.py generate_pdf_doc *)

\* pdf.add_page()
AddPage == El("page", 0, "", <<>>, 0, FALSE)

\* pdf.cell(200, 10, txt=..., ln=1) in the 12 point font set before it
Cell(text, bold) == El("cell", 0, Cat(text), <<>>, 12, bold)

\* pdf.multi_cell(0, 10, txt=...) in the 10 point font
MultiCell(text) == El("multi_cell", 0, Cat(text), <<>>, 10, FALSE)

\* pdf.ln(5)
Ln == El("ln", 0, "", <<>>, 0, FALSE)

\* A run of pdf.multi_cell(0, 10, txt=f"<label>{rec.get(<key>, 'N/A')}").
Cells(rec, pairs) ==
    [i \in 1..Len(pairs) |->
        MultiCell(<<pairs[i][1], Str(Get(rec.f, pairs[i][2], "N/A"))>>)]

\* Lines 335-346.
App3PdfModel(rep) ==
    LET c == ReportGet(rep, "model")
        line(label, key) == MultiCell(<<label, Str(DictGet(c, key, "N/A"))>>)
    IN  IF ~Present(rep, "model") THEN Ok(<<>>)
        ELSE Then(Ok(<<AddPage, Cell(<<"Model Information">>, TRUE)>>),
                  IF c.kind # "dict" THEN Fail("AttributeError")
                  ELSE Ok(<<line("Name: ", "name"),
                            line("Culture: ", "culture"),
                            line("Default Mode: ", "defaultMode"),
                            line("Description: ", "description"),
                            line("Modified Time: ", "modifiedTime"),
                            Ln>>))

\* Lines 363-365: df_columns.to_string(index=False): one column per key
\* that some element of table['columns'] has, a NaN cell where an element
\* lacks the key.
to_string(cols) ==
    LET names == SelectSeq(column_order, LAMBDA k :
                     \E i \in 1..Len(cols) : k \in DOMAIN cols[i].f)
    IN  El("to_string", 0, "",
           <<names>>
           \o [i \in 1..Len(cols) |->
                 [j \in 1..Len(names) |->
                     Str(Get(cols[i].f, names[j], "NaN"))]],
           10, FALSE)

\* The body of the loop over the elements of a list section.
App3PdfItem(key, it) ==
    CASE key = "tables" ->
           \* lines 355-366: table['name'] raises KeyError when missing
           IF "name" \notin DOMAIN it.f THEN Fail("KeyError")
           ELSE Ok(<<MultiCell(<<"Table: ", Str(it.f["name"])>>)>>
                   \o Cells(it, <<<<"Description: ", "description">>,
                                  <<"Hidden: ", "isHidden">>,
                                  <<"Data Category: ", "dataCategory">>,
                                  <<"Lineage Tag: ", "lineageTag">>>>)
                   \o (IF it.hasCols /\ it.cols # <<>>
                       THEN <<MultiCell(<<"Columns:">>), to_string(it.cols)>>
                       ELSE <<>>)
                   \o <<Ln>>)
      [] key = "measures" ->
           \* lines 374-383: measure['name'] and measure['expression'] raise
           \* KeyError when missing
           IF "name" \notin DOMAIN it.f THEN Fail("KeyError")
           ELSE Then(Ok(<<MultiCell(<<"Measure: ", Str(it.f["name"])>>)>>),
                IF "expression" \notin DOMAIN it.f THEN Fail("KeyError")
                ELSE Ok(<<MultiCell(<<"Expression: ",
                                      Str(it.f["expression"])>>)>>
                        \o Cells(it,
                             <<<<"Description: ", "description">>,
                               <<"Display Folder: ", "displayFolder">>,
                               <<"Format String: ", "formatString">>,
                               <<"Hidden: ", "isHidden">>,
                               <<"Data Category: ", "dataCategory">>,
                               <<"Display Format: ", "displayFormat">>,
                               <<"Lineage Tag: ", "lineageTag">>>>)
                        \o <<Ln>>))
      [] key = "relationships" ->
           \* lines 392-404
           Ok(Cells(it,
                <<<<"Relationship: ", "name">>,
                  <<"From Table: ", "fromTable">>,
                  <<"From Column: ", "fromColumn">>,
                  <<"To Table: ", "toTable">>,
                  <<"To Column: ", "toColumn">>,
                  <<"Join On Date Behavior: ", "joinOnDateBehavior">>,
                  <<"State: ", "state">>,
                  <<"Type: ", "type">>,
                  <<"Cross Filtering Behavior: ", "crossFilteringBehavior">>,
                  <<"Active: ", "isActive">>,
                  <<"Security Filtering Behavior: ",
                    "securityFilteringBehavior">>,
                  <<"Lineage Tag: ", "lineageTag">>>>)
              \o <<Ln>>)
      [] key = "cultures" ->
           \* lines 412-417
           Ok(Cells(it, <<<<"Culture: ", "name">>,
                          <<"Language: ", "language">>>>)
              \o (IF FieldTruthy(it.f, "linguisticMetadata")
                  THEN <<MultiCell(<<"Linguistic Metadata:">>),
                         MultiCell(<<it.f["linguisticMetadata"]>>)>>
                  ELSE <<>>)
              \o <<Ln>>)
      [] key = "datasources" ->
           \* lines 425-432
           Ok(Cells(it, <<<<"Data Source: ", "name">>,
                          <<"Type: ", "type">>,
                          <<"Connection String: ", "connectionString">>,
                          <<"Datasource Type: ", "datasourceType">>,
                          <<"Gateway: ", "gateway">>,
                          <<"Server: ", "server">>,
                          <<"Database: ", "database">>>>)
              \o <<Ln>>)
      [] key = "roles" ->
           \* lines 440-448
           Ok(Cells(it, <<<<"Role: ", "name">>,
                          <<"Model Permission: ", "modelPermission">>>>)
              \o (IF it.hasCols /\ it.cols # <<>>
                  THEN <<MultiCell(<<"Table Permissions:">>)>>
                       \o Chain([j \in 1..Len(it.cols) |->
                            Ok(Cells(it.cols[j],
                                 <<<<"- Table: ", "name">>,
                                   <<"  - Filter Expression: ",
                                     "filterExpression">>,
                                   <<"  - Rows Access: ",
                                     "rowsAccess">>>>))]).doc
                  ELSE <<>>)
              \o <<Ln>>)
      [] key = "expressions" ->
           \* lines 456-461
           Ok(Cells(it, <<<<"Expression: ", "name">>,
                          <<"Kind: ", "kind">>,
                          <<"Expression: ", "expression">>,
                          <<"Hidden: ", "isHidden">>,
                          <<"Lineage Tag: ", "lineageTag">>>>)
              \o <<Ln>>)
      [] OTHER ->
           \* lines 470-472: annotations
           Ok(Cells(it, <<<<"Annotation: ", "name">>,
                          <<"Value: ", "value">>>>)
              \o <<Ln>>)

\* One list section: nothing at all unless the key is present and truthy;
\* then a new page, the title in bold and the elements.
App3PdfList(rep, key, title, e) ==
    LET c == ReportGet(rep, key)
    IN  IF ~Present(rep, key) THEN Ok(<<>>)
        ELSE Then(Ok(<<AddPage, Cell(<<title>>, TRUE)>>),
                  Iter(c, {"list"},
                       [i \in 1..Len(c.items) |->
                           App3PdfItem(key, c.items[i])], e))

\* Lines 335-472: the sections in the order the function writes them.
App3PdfSections(rep) ==
    <<App3PdfModel(rep),
      App3PdfList(rep, "tables", "Tables", "TypeError"),
      App3PdfList(rep, "measures", "Measures", "TypeError"),
      App3PdfList(rep, "relationships", "Relationships", "AttributeError"),
      App3PdfList(rep, "cultures", "Cultures", "AttributeError"),
      App3PdfList(rep, "datasources", "Data Sources", "AttributeError"),
      App3PdfList(rep, "roles", "Roles", "AttributeError"),
      App3PdfList(rep, "expressions", "Expressions", "AttributeError"),
      App3PdfList(rep, "annotations", "Annotations", "AttributeError")>>

\* app3.py generate_pdf_doc, lines 326-479.
App3_generate_pdf_doc(rep) ==
    Then(Ok(<<AddPage, Cell(<<"PBIX Documentation">>, FALSE)>>),
         Chain(App3PdfSections(rep)))
----------------------------------------------------------------------------
(* app2.py generate_documentation, output_format == 'PDF' *)

\* story.append(Paragraph(text, styles[style]))
Paragraph(text, style) == El(style, 0, Cat(text), <<>>, 0, FALSE)

\* story.append(Spacer(1, height))
Spacer(height) == El("spacer", 0, "", <<>>, height, FALSE)

\* Lines 250-257.
App2PdfMetadata(rep) ==
    LET c == ReportGet(rep, "metadata")
    IN  Then(Ok(<<Paragraph(<<"Metadata">>, "h2")>>),
        Then(IfElse(Truth(c),
                    Iter(c, {"dict"},
                         [i \in 1..Len(c.items) |->
                             Ok(<<Paragraph(<<"<b>", c.items[i].key, ":</b> ",
                                              Str(c.items[i].f["value"])>>,
                                            "Normal")>>)],
                         "AttributeError"),
                    Ok(<<Paragraph(<<"No metadata available.">>, "Normal")>>)),
             Ok(<<Spacer(12)>>)))

\* Lines 260-297: the tables, each with the table of its columns.
App2PdfTables(rep) ==
    LET c == ReportGet(rep, "tables")
        row(col) ==
            <<col.key,
              Get(col.f, "data_type", "N/A"),
              Str(Get(col.f, "is_hidden", "N/A")),
              Get(col.f, "source_column", "N/A"),
              Get(col.f, "summarization_function", "N/A"),
              IF FieldTruthy(col.f, "expression")
              THEN col.f["expression"] ELSE "">>
        table(t) ==
            <<Paragraph(<<"Table: ", t.key, " (Rows: ",
                          Str(Get(t.f, "row_count", "N/A")), ")">>, "h3"),
              Paragraph(<<"Columns">>, "h4"),
              IF t.hasCols /\ t.cols # <<>>
              THEN Tbl(<<<<"Name", "Data Type", "Is Hidden", "Source Column",
                           "Summarization", "Expression">>>>
                       \o [i \in 1..Len(t.cols) |-> row(t.cols[i])])
              ELSE Paragraph(<<"No columns found for this table.">>,
                             "Normal"),
              Spacer(6)>>
    IN  Then(Ok(<<Paragraph(<<"Tables">>, "h2")>>),
        Then(IfElse(Truth(c),
                    Then(Ok(<<Paragraph(<<"Number of Tables: ",
                                          ToString(Len(c.items))>>,
                                        "Normal")>>),
                         Iter(c, {"dict"},
                              [i \in 1..Len(c.items) |->
                                  Ok(table(c.items[i]))],
                              "AttributeError")),
                    Ok(<<Paragraph(<<"No tables found.">>, "Normal")>>)),
             Ok(<<Spacer(12)>>)))

\* Lines 300-312 (Measures) and 371-383 (DAX Tables): a dict of records,
\* each written as a heading and one paragraph per field.
App2PdfNamed(rep, key, title, item, fields, placeholder) ==
    LET c == ReportGet(rep, key)
        record(m) ==
            <<Paragraph(<<item, ": ", m.key>>, "h3")>>
            \o [i \in 1..Len(fields) |->
                  Paragraph(<<"<b>", fields[i][1], ":</b> ",
                              Str(Get(m.f, fields[i][2], "N/A"))>>,
                            "Normal")]
            \o <<Spacer(6)>>
    IN  Then(Ok(<<Paragraph(<<title>>, "h2")>>),
        Then(IfElse(Truth(c),
                    Then(Ok(<<Paragraph(<<"Number of ", title, ": ",
                                          ToString(Len(c.items))>>,
                                        "Normal")>>),
                         Iter(c, {"dict"},
                              [i \in 1..Len(c.items) |->
                                  Ok(record(c.items[i]))],
                              "AttributeError")),
                    Ok(<<Paragraph(<<placeholder>>, "Normal")>>)),
             Ok(<<Spacer(12)>>)))

\* Lines 315-346: a table with a header row and one row per relationship.
App2PdfRelationships(rep) ==
    LET c == ReportGet(rep, "relationships")
        row(rel) ==
            <<Get(rel.f, "name", "N/A"),
              Get(rel.f, "from_table", "N/A"),
              Get(rel.f, "from_column", "N/A"),
              Get(rel.f, "to_table", "N/A"),
              Get(rel.f, "to_column", "N/A"),
              Get(rel.f, "model", "N/A"),
              Str(Get(rel.f, "active", "N/A")),
              Get(rel.f, "cross_filter_direction", "N/A")>>
    IN  Then(Ok(<<Paragraph(<<"Relationships">>, "h2")>>),
        Then(IfElse(Truth(c),
                    Then(Ok(<<Paragraph(<<"Number of Relationships: ",
                                          ToString(Len(c.items))>>,
                                        "Normal")>>),
                         Iter(c, {"list"},
                              <<Ok(<<Tbl(<<<<"Name", "From Table",
                                             "From Column", "To Table",
                                             "To Column", "Model", "Active",
                                             "Cross Filter Direction">>>>
                                         \o [i \in 1..Len(c.items) |->
                                               row(c.items[i])])>>)>>,
                              "AttributeError")),
                    Ok(<<Paragraph(<<"No relationships found.">>,
                                   "Normal")>>)),
             Ok(<<Spacer(12)>>)))

\* Lines 349-357: the M code as one paragraph in the Code style.
App2PdfPowerQuery(rep) ==
    LET power_query == IF ReportHas(rep, "power_query")
                       THEN ReportGet(rep, "power_query")
                       ELSE StrC("No M code found.")
        test == IF Truth(power_query) # "T" THEN Truth(power_query)
                ELSE IF power_query.kind # "str" THEN "AttributeError"
                ELSE IF IsBlank(power_query.text) THEN "F" ELSE "T"
    IN  Then(Ok(<<Paragraph(<<"Power Query (M Code)">>, "h2")>>),
        Then(IfElse(test,
                    Ok(<<Paragraph(<<"M Code:">>, "Normal"),
                         Paragraph(<<power_query.text>>, "Code")>>),
                    Ok(<<Paragraph(<<"No Power Query (M Code) found.">>,
                                   "Normal")>>)),
             Ok(<<Spacer(12)>>)))

\* Lines 360-368.
App2PdfParameters(rep) ==
    LET c == ReportGet(rep, "m_parameters")
        field(i, key) == Str(Get(c.items[i].f, key, "N/A"))
    IN  Then(Ok(<<Paragraph(<<"M Parameters">>, "h2")>>),
        Then(IfElse(Truth(c),
                    Then(Ok(<<Paragraph(<<"Number of M Parameters: ",
                                          ToString(Len(c.items))>>,
                                        "Normal")>>),
                         Iter(c, {"list"},
                              [i \in 1..Len(c.items) |->
                                  Ok(<<Paragraph(
                                         <<"- Name: ", field(i, "name"),
                                           ", Value: ", field(i, "value"),
                                           ", Data Type: ",
                                           field(i, "dataType")>>,
                                         "Normal")>>)],
                              "AttributeError")),
                    Ok(<<Paragraph(<<"No M Parameters found.">>,
                                   "Normal")>>)),
             Ok(<<Spacer(12)>>)))

\* Lines 250-383: the sections in the order the PDF branch appends them.
App2PdfSections(rep) ==
    <<App2PdfMetadata(rep),
      App2PdfTables(rep),
      App2PdfNamed(rep, "measures", "Measures", "Measure",
                   <<<<"Expression", "expression">>,
                     <<"Display Folder", "display_folder">>,
                     <<"Format String", "format_string">>,
                     <<"Is Hidden", "is_hidden">>>>,
                   "No measures found."),
      App2PdfRelationships(rep),
      App2PdfPowerQuery(rep),
      App2PdfParameters(rep),
      App2PdfNamed(rep, "dax_tables", "DAX Tables", "DAX Table",
                   <<<<"Expression", "expression">>,
                     <<"Display Folder", "display_folder">>,
                     <<"Is Hidden", "is_hidden">>>>,
                   "No DAX Tables found.")>>

\* app2.py generate_documentation, lines 239-383: the story handed to
\* doc.build.
App2_generate_documentation_PDF(rep) ==
    Then(Ok(<<Paragraph(<<"PBIX File Documentation">>, "h1"), Spacer(12)>>),
         Chain(App2PdfSections(rep)))
----------------------------------------------------------------------------
(* The reports the renderers are applied to.                                *)
(*                                                                          *)
(* A report has at most MaxSections keys, inserted in any order; the value  *)
(* of a key is drawn from the samples of that key: absent values, empty and *)
(* non-empty containers of each type a section can have, records with and   *)
(* without the fields the renderers read, and the spellings of a            *)
(* relationship's source table.                                             *)

MaxSections == 2

\* The number of records of the longest sample frame.
ManyRows == 45

RelCamel ==
    [name |-> "r1", fromTable |-> "Sales", fromColumn |-> "CustomerID",
     toTable |-> "Customer", toColumn |-> "ID"]

RelSnake ==
    [name |-> "r1", from_table |-> "Sales", from_column |-> "CustomerID",
     to_table |-> "Customer", to_column |-> "ID", active |-> "True"]

\* The spellings of the key of a relationship's source table.
FromTableKeys == {"From Table", "from_table", "fromTable"}

OnlyFromTable(key) == key :> "Sales"

\* An expression longer than one line of the PDF.
LongText ==
    "CALCULATE(SUM(Sales[Amount]), FILTER(ALL(Sales), Sales[Region] = Customer[Region]), Sales[Quantity] > 0, Sales[Year] = 2024)"

\* {}: a dict without keys.
NoFields == [k \in {} |-> ""]

\* app.py extract_pbix_info, lines 29-44: the values of info.
AppPool(key) ==
    CASE key = "data_model" ->
           {DictC(<<ItmC("tables", NoFields, <<Itm("", [value |-> "Sales"])>>),
                    ItmC("relationships", NoFields, <<>>),
                    ItmC("measures", NoFields,
                         <<Itm("", [value |-> "Total"])>>)>>),
            DictC(<<ItmC("tables", NoFields, <<>>),
                    ItmC("relationships", NoFields, <<>>),
                    ItmC("measures", NoFields, <<>>)>>)}
      [] key = "pages" ->
           {ListC(<<>>), ListC(<<Itm("", [value |-> "Page 1"])>>),
            ListC(<<Itm("", [value |-> "Page 1"]), Itm("", [value |-> "Page 2"])>>)}
      [] OTHER ->
           {DictC(<<>>),
            DictC(<<Itm("Page 1", [value |->
              "Details about visuals would go here (requires deeper parsing)"])>>)}

\* app_adv.py main, lines 221-254: the values of report_data.
AdvPool(key) ==
    CASE key = "metadata" ->
           {NoneC, DictC(<<>>), DictC(<<Itm("Version", [value |-> "1.0"])>>),
            FrameC(<<Itm("", [Name |-> "Version", Value |-> "1.0"])>>)}
      [] key = "schema" ->
           {NoneC, ListC(<<>>),
            ListC(<<ItmC("", [name |-> "Sales"],
                         <<Itm("", [name |-> "Amount",
                                    dataType |-> "double"])>>)>>),
            ListC(<<Itm("", NoFields)>>),
            FrameC(<<Itm("", [TableName |-> "Sales", ColumnName |-> "Amount"])>>)}
      [] key = "relationships" ->
           {NoneC, FrameC(<<>>), ListC(<<>>), FrameC(<<Itm("", RelCamel)>>),
            ListC(<<Itm("", RelCamel)>>),
            FrameC([i \in 1..ManyRows |-> Itm("", RelCamel)])}
           \cup {FrameC(<<Itm("", OnlyFromTable(k))>>) : k \in FromTableKeys}
      [] key = "power_query" ->
           {NoneC, FrameC(<<>>),
            FrameC(<<Itm("", [name |-> "Query1",
                          expression |-> "let Source = 1 in Source"])>>),
            FrameC(<<Itm("", [name |-> "Query1"])>>)}
      [] key = "m_parameters" ->
           {NoneC, FrameC(<<>>),
            FrameC(<<Itm("", [name |-> "Env", value |-> "prod"])>>)}
      [] key = "dax_tables" ->
           {NoneC, FrameC(<<>>),
            FrameC(<<Itm("", [name |-> "Calendar",
                          expression |-> "CALENDARAUTO()"])>>)}
      [] OTHER ->
           {NoneC, FrameC(<<>>),
            FrameC(<<Itm("", [name |-> "Total",
                          expression |-> "SUM(Sales[Amount])"])>>),
            FrameC(<<Itm("", [expression |-> LongText])>>)}

\* app2.py analyze_pbix_file, lines 35-95: the values of analysis_results.
App2Pool(key) ==
    CASE key = "metadata" ->
           {NoneC, DictC(<<>>), DictC(<<Itm("Version", [value |-> "1.0"])>>),
            FrameC(<<Itm("", [Name |-> "Version", Value |-> "1.0"])>>)}
      [] key = "tables" ->
           {DictC(<<>>),
            DictC(<<ItmC("Sales", [name |-> "Sales", row_count |-> "10"],
                         <<Itm("Amount", [name |-> "Amount",
                                          data_type |-> "double",
                                          is_hidden |-> "False",
                                          expression |-> NoneVal])>>)>>),
            DictC(<<ItmC("Empty", [name |-> "Empty", row_count |-> "0"],
                         <<>>)>>)}
      [] key = "measures" ->
           {DictC(<<>>),
            DictC(<<Itm("Total", [name |-> "Total",
                                  expression |-> "SUM(Sales[Amount])"])>>)}
      [] key = "relationships" ->
           {ListC(<<>>), ListC(<<Itm("", RelSnake)>>)}
           \cup {ListC(<<Itm("", OnlyFromTable(k))>>) : k \in FromTableKeys}
      [] key = "power_query" ->
           {NoneC, StrC(""), StrC(" "), StrC("let Source = 1 in Source"),
            FrameC(<<Itm("", [name |-> "Query1"])>>)}
      [] key = "m_parameters" ->
           {NoneC, ListC(<<>>),
            ListC(<<Itm("", [name |-> "Env", value |-> "prod",
                         dataType |-> "text"])>>)}
      [] OTHER ->
           {NoneC, DictC(<<>>),
            DictC(<<Itm("Calendar", [expression |-> "CALENDARAUTO()"])>>)}

\* app3.py run_pbixray, line 20: the values of the parsed JSON object.
App3Pool(key) ==
    CASE key = "model" ->
           {NoneC, DictC(<<>>),
            DictC(<<Itm("name", [value |-> "Model"]),
                    Itm("culture", [value |-> "en-US"])>>)}
      [] key = "tables" ->
           {ListC(<<>>),
            ListC(<<ItmC("", [name |-> "Sales"],
                         <<Itm("", [name |-> "OrderID",
                                    dataType |-> "Int64"])>>)>>),
            ListC(<<Itm("", [description |-> "unnamed"])>>)}
      [] key = "measures" ->
           {ListC(<<>>),
            ListC(<<Itm("", [name |-> "Total",
                         expression |-> "SUM(Sales[Amount])"])>>),
            ListC(<<Itm("", [name |-> "Total"])>>),
            ListC(<<Itm("", [expression |-> "1"])>>)}
      [] key = "relationships" ->
           {ListC(<<>>), ListC(<<Itm("", RelCamel)>>)}
           \cup {ListC(<<Itm("", OnlyFromTable(k))>>) : k \in FromTableKeys}
      [] key = "cultures" ->
           {ListC(<<>>),
            ListC(<<Itm("", [name |-> "en-US", linguisticMetadata |-> "{}"])>>)}
      [] key = "datasources" ->
           {ListC(<<>>),
            ListC(<<Itm("", [name |-> "SqlServer", type |-> "structured"])>>)}
      [] key = "roles" ->
           {ListC(<<>>),
            ListC(<<ItmC("", [name |-> "Reader", modelPermission |-> "read"],
                         <<Itm("", [name |-> "Sales",
                                    filterExpression |-> "TRUE()"])>>)>>)}
      [] key = "expressions" ->
           {ListC(<<>>),
            ListC(<<Itm("", [name |-> "Param", kind |-> "m",
                         expression |-> "1"])>>)}
      [] OTHER ->
           {ListC(<<>>), ListC(<<Itm("", [name |-> "a", value |-> "v"])>>)}

\* The keys a script's renderers read.
RenderKeys(v) ==
    CASE v = "app"     -> Range(AppKeys)
      [] v = "app2"    -> Range(App2Keys) \ {"size_bytes"}
      [] v = "app_adv" -> Range(AdvSections)
      [] OTHER         -> Range(App3Keys)

Pool(v, key) ==
    CASE v = "app"     -> AppPool(key)
      [] v = "app2"    -> App2Pool(key)
      [] v = "app_adv" -> AdvPool(key)
      [] OTHER         -> App3Pool(key)

\* The insertion orders: the sequences of at most MaxSections distinct keys.
Orders(v) ==
    {s \in UNION {[1..n -> RenderKeys(v)] : n \in 0..MaxSections} :
        \A i, j \in DOMAIN s : i # j => s[i] # s[j]}

\* The assignments of a sample value to each key of a sequence of keys.
RECURSIVE Vals(_, _)
Vals(v, ks) ==
    IF ks = <<>> THEN {[k \in {} |-> NoneC]}
    ELSE {(Head(ks) :> c) @@ f : c \in Pool(v, Head(ks)),
                                 f \in Vals(v, Tail(ks))}

Reports(v) ==
    UNION {{[order |-> s, val |-> f] : f \in Vals(v, s)} : s \in Orders(v)}

----------------------------------------------------------------------------
(* Rendering one report: the renderers of one script applied to it. *)

\* Document(), canvas.Canvas(buffer), FPDF(), story = []: nothing added yet.
NewDocument == <<>>

InitRender ==
    /\ rvariant \in Variants
    /\ report \in Reports(rvariant)
    /\ word = <<>>
    /\ pdf = <<>>
    /\ rendered = {} /\ again = {}
    /\ pbix_model = <<>> /\ analysis_results = <<>>
    /\ performance_insights = <<>> /\ aerr = "" /\ apc = "idle"
    \* the requests are not part of this specification
    /\ variant = "" /\ pc = "idle" /\ files = {} /\ created = FALSE
    /\ pathBound = FALSE /\ extracted = "pending" /\ failedAt = ""
    /\ present = {} /\ nonEmpty = {} /\ shown = {} /\ downloads = {}
    /\ docWritten = FALSE /\ exc = "" /\ uncaught = FALSE /\ removes = 0
    /\ cvariant = "" /\ cpc = <<>> /\ cup = <<>> /\ cpath = <<>>
    /\ disk = <<>> /\ cread = <<>> /\ cdeleted = <<>> /\ cerr = <<>>
    /\ cdoc = <<>>

\* A Word renderer that keeps one document for all its calls.
RenderWord_sharedDocument(v, result) ==
    /\ rvariant = v
    /\ "Word" \notin again
    /\ word' = [err |-> result.err,
                doc |-> (IF "Word" \in rendered THEN word.doc ELSE <<>>)
                        \o result.doc]
    /\ rendered' = rendered \cup {"Word"}
    /\ again' = IF "Word" \in rendered THEN again \cup {"Word"} ELSE again
    /\ UNCHANGED <<rvariant, report, pdf>>
    /\ UNCHANGED <<reqVars, concVars, anaVars>>

\* Every call of a renderer starts from a document of its own (Document(),
\* canvas.Canvas(BytesIO()), FPDF(), a new story list) and only reads the
\* report; the script may run the renderer again on a rerun of the page.
RenderWord(v, result) ==
    /\ rvariant = v
    /\ "Word" \notin again
    /\ word' = [err |-> result.err, doc |-> NewDocument \o result.doc]
    /\ rendered' = rendered \cup {"Word"}
    /\ again' = IF "Word" \in rendered THEN again \cup {"Word"} ELSE again
    /\ UNCHANGED <<rvariant, report, pdf>>
    /\ UNCHANGED <<reqVars, concVars, anaVars>>

\* A PDF renderer that takes each section out of the report as it writes it.
RenderPdf_consuming(v, result) ==
    /\ rvariant = v
    /\ "PDF" \notin again
    /\ pdf' = [err |-> result.err, doc |-> NewDocument \o result.doc]
    /\ rendered' = rendered \cup {"PDF"}
    /\ again' = IF "PDF" \in rendered THEN again \cup {"PDF"} ELSE again
    /\ report' = [order |-> <<>>, val |-> <<>>]
    /\ UNCHANGED <<rvariant, word>>
    /\ UNCHANGED <<reqVars, concVars, anaVars>>

RenderPdf(v, result) ==
    /\ rvariant = v
    /\ "PDF" \notin again
    /\ pdf' = [err |-> result.err, doc |-> NewDocument \o result.doc]
    /\ rendered' = rendered \cup {"PDF"}
    /\ again' = IF "PDF" \in rendered THEN again \cup {"PDF"} ELSE again
    /\ UNCHANGED <<rvariant, report, word>>
    /\ UNCHANGED <<reqVars, concVars, anaVars>>

App_Word == RenderWord("app", App_create_word_documentation(report))

App2_Word == RenderWord("app2", App2_generate_documentation_Word(report))

App2_Pdf == RenderPdf("app2", App2_generate_documentation_PDF(report))

AdvRender_Word == RenderWord("app_adv", Adv_generate_word_doc(report))

AdvRender_Pdf == RenderPdf("app_adv", Adv_generate_pdf_doc(report))

\* app3.py lines 501-523: the script renders only when the parsed data has
\* a section that is present and non-empty.
App3HasSections == \E key \in Range(App3Keys) : Present(report, key)

App3Render_Word ==
    /\ App3HasSections
    /\ RenderWord("app3", App3_generate_word_doc(report))

App3Render_Pdf ==
    /\ App3HasSections
    /\ RenderPdf("app3", App3_generate_pdf_doc(report))

NextRender ==
    \/ App_Word
    \/ App2_Word
    \/ App2_Pdf
    \/ AdvRender_Word
    \/ AdvRender_Pdf
    \/ App3Render_Word
    \/ App3Render_Pdf

SpecRender == InitRender /\ [][NextRender]_vars


----------------------------------------------------------------------------
(* app2.py: what analyze_pbix_file extracts from the analyzer's object and  *)
(* what analyze_performance_and_complexity finds in it.                     *)
(*                                                                          *)
(* A Python dict is the sequence of its entries [key, value] in insertion   *)
(* order.  Only the fields the two functions look at are kept: the other    *)
(* fields of a column, a measure and a relationship are copied as they are. *)

\* Line 418.
COMPLEX_DAX_THRESHOLD == 100

\* Line 419.
LARGE_TABLE_ROW_THRESHOLD == 100000

\* Line 420.
MANY_COLUMNS_THRESHOLD == 50

\* The most tables, measures and relationships of a sample model.
MaxEntries == 2

\* An int as the analyzer returns it.
Number(n) == [type |-> "int", n |-> n]

\* None where a number is expected.
NoneNumber == [type |-> "NoneType", n |-> 0]

\* The indices 1..n in order.
Indices(n) == [i \in 1..n |-> i]

\* The dict after d[keys[i]] = values[i] for i = 1, 2, ...: a key keeps the
\* place of its first assignment and the value of its last one.
DictOf(keys, values) ==
    LET first == SelectSeq(Indices(Len(keys)),
                           LAMBDA i : \A j \in 1..(i - 1) : keys[j] # keys[i])
        last(key) == CHOOSE i \in 1..Len(keys) :
                        /\ keys[i] = key
                        /\ \A j \in (i + 1)..Len(keys) : keys[j] # key
    IN  [k \in 1..Len(first) |->
            [key |-> keys[first[k]], value |-> values[last(keys[first[k]])]]]

\* Lines 53-66.
column_info(column) ==
    [name |-> column.name, data_type |-> column.data_type,
     expression |-> column.expression]

\* Lines 47-67: table_info["columns"][column.name()] = column_info for
\* every column.
table_info(table) ==
    [name |-> table.name, row_count |-> table.row_count,
     columns |-> DictOf([i \in 1..Len(table.columns) |->
                            table.columns[i].name],
                        [i \in 1..Len(table.columns) |->
                            column_info(table.columns[i])])]

\* Lines 46-68: analysis_results["tables"][table.name()] = table_info for
\* every table.
ExtractTables(tables) ==
    DictOf([i \in 1..Len(tables) |-> tables[i].name],
           [i \in 1..Len(tables) |-> table_info(tables[i])])

\* Lines 71-79: analysis_results["measures"][measure.name()] = measure_info
\* for every measure.
ExtractMeasures(measures) ==
    DictOf([i \in 1..Len(measures) |-> measures[i].name],
           [i \in 1..Len(measures) |->
               [name |-> measures[i].name,
                expression |-> measures[i].expression]])

\* Lines 82-95: one relationship_info appended per relationship.
ExtractRelationships(relationships) ==
    [i \in 1..Len(relationships) |->
        [name |-> relationships[i].name,
         from_table |-> relationships[i].from_table,
         to_table |-> relationships[i].to_table]]

\* Lines 35-97: the dict analyze_pbix_file returns.
analyze_pbix_file(m) ==
    [tables |-> ExtractTables(m.tables),
     relationships |-> ExtractRelationships(m.relationships),
     measures |-> ExtractMeasures(m.measures)]

\* Lines 423-431: len(expression) of a measure; len(None) raises TypeError.
MeasureExpression(entry) == Get(entry.value, "expression", "")

ComplexMeasures(measures) ==
    LET long == SelectSeq(Indices(Len(measures)),
                          LAMBDA i : Len(MeasureExpression(measures[i]))
                                         > COMPLEX_DAX_THRESHOLD)
    IN  [j \in 1..Len(long) |->
            [name |-> measures[long[j]].key,
             expression_length |->
                 Len(MeasureExpression(measures[long[j]]))]]

\* Lines 438-447: the calculated columns of one table whose expression is
\* longer than the threshold.
ComplexColumns(entry) ==
    LET columns == Get(entry.value, "columns", <<>>)
        long == SelectSeq(Indices(Len(columns)),
                          LAMBDA i :
                              /\ FieldTruthy(columns[i].value, "expression")
                              /\ Len(columns[i].value["expression"])
                                     > COMPLEX_DAX_THRESHOLD)
    IN  [j \in 1..Len(long) |->
            [table |-> entry.key, column |-> columns[long[j]].key,
             expression_length |->
                 Len(columns[long[j]].value["expression"])]]

\* Lines 436-447 over the first n tables.
RECURSIVE ComplexCalculatedColumns(_, _)
ComplexCalculatedColumns(tables, n) ==
    IF n = 0 THEN <<>>
    ELSE ComplexCalculatedColumns(tables, n - 1)
             \o ComplexColumns(tables[n])

\* A check that also reports a table exactly at the threshold.
LargeTables_atThreshold(tables) ==
    LET row_count(i) == Get(tables[i].value, "row_count", Number(0))
        large == SelectSeq(Indices(Len(tables)),
                           LAMBDA i :
                               /\ row_count(i).type \in {"int", "float"}
                               /\ row_count(i).n >= LARGE_TABLE_ROW_THRESHOLD)
    IN  [j \in 1..Len(large) |->
            [name |-> tables[large[j]].key,
             row_count |-> row_count(large[j])]]

\* Lines 451-456.
LargeTables(tables) ==
    LET row_count(i) == Get(tables[i].value, "row_count", Number(0))
        large == SelectSeq(Indices(Len(tables)),
                           LAMBDA i :
                               /\ row_count(i).type \in {"int", "float"}
                               /\ row_count(i).n > LARGE_TABLE_ROW_THRESHOLD)
    IN  [j \in 1..Len(large) |->
            [name |-> tables[large[j]].key,
             row_count |-> row_count(large[j])]]

\* Lines 459-463.
TablesWithManyColumns(tables) ==
    LET columns(i) == Get(tables[i].value, "columns", <<>>)
        many == SelectSeq(Indices(Len(tables)),
                          LAMBDA i :
                              /\ columns(i) # <<>>
                              /\ Len(columns(i)) > MANY_COLUMNS_THRESHOLD)
    IN  [j \in 1..Len(many) |->
            [name |-> tables[many[j]].key,
             column_count |-> Len(columns(many[j]))]]

\* Lines 399-481: the dict returned, or the exception raised: len() of an
\* expression that is None raises TypeError in the loop over the measures,
\* before anything else is looked at.
analyze_performance_and_complexity(results) ==
    LET measures == Get(results, "measures", <<>>)
        tables == Get(results, "tables", <<>>)
    IN  IF \E i \in 1..Len(measures) :
               MeasureExpression(measures[i]) = NoneVal
        THEN [err |-> "TypeError", value |-> <<>>]
        ELSE [err |-> "",
              value |->
                  [complex_measures |-> ComplexMeasures(measures),
                   complex_calculated_columns |->
                       ComplexCalculatedColumns(tables, Len(tables)),
                   many_to_many_without_bridge |-> <<>>,
                   large_tables |-> LargeTables(tables),
                   tables_with_many_columns |->
                       TablesWithManyColumns(tables)]]

\* Sample expressions: exactly as long as the threshold, one longer, short.
AtThreshold == SubSeq(LongText, 1, COMPLEX_DAX_THRESHOLD)

OverThreshold == SubSeq(LongText, 1, COMPLEX_DAX_THRESHOLD + 1)

ShortText == "SUM(Sales[Amount])"

Column(name, expression) ==
    [name |-> name, data_type |-> "Int64", expression |-> expression]

\* n columns Column1 .. Columnn without an expression.
PlainColumns(n) == [i \in 1..n |-> Column("Column" \o ToString(i), NoneVal)]

\* The tables of the sample models: a large one with a calculated column,
\* one of the same name at the row threshold with two columns of one name,
\* one with more columns than the threshold and no row count, one with
\* exactly as many columns as the threshold.
TablePool ==
    {[name |-> "Sales", row_count |-> Number(LARGE_TABLE_ROW_THRESHOLD + 1),
      columns |-> <<Column("OrderID", NoneVal),
                    Column("Margin", OverThreshold)>>],
     [name |-> "Sales", row_count |-> Number(LARGE_TABLE_ROW_THRESHOLD),
      columns |-> <<Column("Amount", ""), Column("Amount", AtThreshold)>>],
     [name |-> "Dates", row_count |-> NoneNumber,
      columns |-> PlainColumns(MANY_COLUMNS_THRESHOLD + 1)],
     [name |-> "Dates", row_count |-> Number(0),
      columns |-> PlainColumns(MANY_COLUMNS_THRESHOLD)]}

MeasurePool ==
    {[name |-> "Total", expression |-> ShortText],
     [name |-> "Total", expression |-> OverThreshold],
     [name |-> "Average", expression |-> AtThreshold],
     [name |-> "Blank", expression |-> NoneVal]}

RelationshipPool ==
    {[name |-> "r1", from_table |-> "Sales", to_table |-> "Dates"]}

\* The sequences over S of at most n elements.
UpTo(S, n) == UNION {[1..k -> S] : k \in 0..n}

InitAnalysis ==
    /\ pbix_model \in [tables : UpTo(TablePool, MaxEntries),
                       measures : UpTo(MeasurePool, MaxEntries),
                       relationships : UpTo(RelationshipPool, MaxEntries)]
    /\ analysis_results = <<>>
    /\ performance_insights = <<>>
    /\ aerr = ""
    /\ apc = "analyze"
    \* nothing else is part of this specification
    /\ variant = "" /\ pc = "idle" /\ files = {} /\ created = FALSE
    /\ pathBound = FALSE /\ extracted = "pending" /\ failedAt = ""
    /\ present = {} /\ nonEmpty = {} /\ shown = {} /\ downloads = {}
    /\ docWritten = FALSE /\ exc = "" /\ uncaught = FALSE /\ removes = 0
    /\ cvariant = "" /\ cpc = <<>> /\ cup = <<>> /\ cpath = <<>>
    /\ disk = <<>> /\ cread = <<>> /\ cdeleted = <<>> /\ cerr = <<>>
    /\ cdoc = <<>>
    /\ rvariant = "" /\ report = <<>> /\ word = <<>> /\ pdf = <<>>
    /\ rendered = {} /\ again = {}

\* app2.py line 498: analysis_results = analyze_pbix_file(tmp_file_path).
\* Lines 99-101: any exception from the analyzer ends in None.
App2_AnalyzeFile ==
    /\ apc = "analyze"
    /\ \/ /\ analysis_results' = analyze_pbix_file(pbix_model)
          /\ apc' = "insights"
          /\ aerr' = aerr
       \/ /\ aerr' = "Exception"
          /\ apc' = "done"
          /\ analysis_results' = analysis_results
    /\ UNCHANGED <<pbix_model, performance_insights>>
    /\ UNCHANGED <<reqVars, concVars, renderVars>>

\* app2.py line 590, inside the try block of st_app:
\* performance_insights = analyze_performance_and_complexity(analysis_results)
App2_Insights ==
    /\ apc = "insights"
    /\ LET result == analyze_performance_and_complexity(analysis_results)
       IN  /\ aerr' = result.err
           /\ performance_insights' = result.value
    /\ apc' = "done"
    /\ UNCHANGED <<pbix_model, analysis_results>>
    /\ UNCHANGED <<reqVars, concVars, renderVars>>

NextAnalysis == App2_AnalyzeFile \/ App2_Insights

SpecAnalysis == InitAnalysis /\ [][NextAnalysis]_vars

----------------------------------------------------------------------------
(* Properties of one request *)

\* The sections the analyzer has an accessor for (size_bytes is not one of
\* the report's sections).
SectionAccessors(v) == Accessors(v) \ {"size_bytes"}

\* C1: when the file opened and the accessor of one section raised,
\* extraction still returns a report that has every section, the failed one
\* recorded as empty, and no failure is shown to the user.
C1_SectionIsolation ==
    (variant \in {"app2", "app_adv"} /\ failedAt \in SectionAccessors(variant))
        => /\ extracted = "report"
           /\ Keys(variant) \subseteq present
           /\ failedAt \notin nonEmpty
           /\ shown = {}

\* C2: in the NamedTemporaryFile variants, once the temporary .pbix file has
\* been created it no longer exists when the request has finished, whatever
\* happened in between.
C2_TempFileRemoved ==
    (variant \in {"app", "app2", "app_adv"} /\ created /\ pc = "done")
        => TmpPath(variant) \notin files

\* C3: in app3.py, temp.pbix is gone when the request has finished, for every
\* outcome of run_pbixray: parsed data, None after a handled error, or an
\* exception run_pbixray does not catch.
C3_TempPbixRemoved ==
    (variant = "app3" /\ pc = "done" /\ (extracted # "pending" \/ failedAt # ""))
        => TmpPath(variant) \notin files

\* C5: in app.py, the generated <tmp>_documentation.docx no longer exists
\* when the request has finished.
C5_DocFileRemoved ==
    (variant = "app" /\ pc = "done" /\ docWritten) => DocPath \notin files

----------------------------------------------------------------------------
(* Properties of concurrent requests *)

\* C4: under every interleaving, each request's analyzer reads exactly the
\* bytes this request uploaded, each removal deletes only the request's own
\* file, and no removal fails because the file is already gone.
C4_NoSharedTempFile ==
    \A r \in Requests :
        /\ cread[r] # "" => cread[r] = cup[r]
        /\ cdeleted[r] \in {0, r}
        /\ cerr[r] = ""

----------------------------------------------------------------------------
(* Properties of rendering *)

\* The title of the section a renderer writes for a key of the report.
SectionTitle(v, key) ==
    CASE v = "app" -> TitleCase(key)
      [] v = "app3" /\ key = "model" -> "Model Information"
      [] v = "app3" /\ key = "datasources" -> "Data Sources"
      [] v = "app3" /\ key = "cultures" -> "Cultures"
      [] v = "app3" /\ key = "roles" -> "Roles"
      [] v = "app3" /\ key = "expressions" -> "Expressions"
      [] v = "app3" /\ key = "annotations" -> "Annotations"
      [] v = "app2" /\ key = "power_query" -> "Power Query (M Code)"
      [] v = "app_adv" /\ key = "power_query" -> "Power Query Code"
      [] key = "metadata" -> "Metadata"
      [] key = "schema" -> "Schema"
      [] key = "tables" -> "Tables"
      [] key = "measures" -> "Measures"
      [] key = "relationships" -> "Relationships"
      [] key = "m_parameters" -> "M Parameters"
      [] key = "dax_tables" -> "DAX Tables"
      [] key = "dax_measures" -> "DAX Measures"
      [] OTHER -> key

\* app2.py generate_documentation: the keys in the order their sections are
\* written.
App2WordOrder ==
    <<"metadata", "tables", "measures", "relationships", "power_query",
      "m_parameters", "dax_tables">>

\* The keys of a script's renderers in the order the renderers write them.
FixedOrder(v) ==
    CASE v = "app_adv" -> AdvSections
      [] v = "app2"    -> App2WordOrder
      [] v = "app3"    -> App3Keys
      [] OTHER         -> AppKeys

\* The placeholder paragraphs of the renderers.
Placeholders ==
    {"No metadata available.", "No schema information available.",
     "No relationships available.", "No Power Query code available.",
     "No M parameters available.", "No DAX tables available.",
     "No DAX measures available.", "No tables found.", "No measures found.",
     "No relationships found.", "No Power Query (M Code) found.",
     "No M Parameters found.", "No DAX Tables found."}

\* A section with nothing in it.
EmptyContent(c) ==
    \/ c.kind = "none"
    \/ c.kind \in {"dict", "list", "frame"} /\ c.items = <<>>
    \/ c.kind = "str" /\ IsBlank(c.text)

\* The section headings of a PDF: the bold 14 point lines of app_adv.py,
\* the bold cells of app3.py, the h2 paragraphs of app2.py.
PdfHeadings(doc) ==
    LET hs == SelectSeq(doc, LAMBDA e :
                  \/ e.t = "text" /\ e.bold /\ e.size = 14
                  \/ e.t = "cell" /\ e.bold
                  \/ e.t = "h2")
    IN  [i \in 1..Len(hs) |-> hs[i].x]

\* Section key's heading is in the document and is followed by the
\* placeholder if the section is empty, by something that is neither a
\* placeholder nor the next section's heading if it is not.
HeadingThenContent(v, rep, doc, key) ==
    \E i \in 1..Len(doc) :
        /\ doc[i].t = "h" /\ doc[i].level = 1
        /\ doc[i].x = SectionTitle(v, key)
        /\ i < Len(doc)
        /\ IF EmptyContent(rep.val[key])
           THEN doc[i + 1].t = "p" /\ doc[i + 1].x \in Placeholders
           ELSE /\ ~(doc[i + 1].t = "h" /\ doc[i + 1].level <= 1)
                /\ doc[i + 1].x \notin Placeholders

\* C6: in a Word document that app_adv.py, app3.py or app2.py has rendered,
\* every section of the report has its heading, followed by its content or,
\* when the section is absent or empty, by the placeholder; no section is
\* omitted.
C6_HeadingThenContentOrPlaceholder ==
    (rvariant \in {"app_adv", "app3", "app2"} /\ "Word" \in rendered
     /\ word.err = "")
        => \A key \in Range(report.order) :
               HeadingThenContent(rvariant, report, word.doc, key)

\* The section contents C7 speaks of: absent, a mapping, a list of records
\* or a tabular frame.
OfRenderableKinds(rep) ==
    \A key \in Range(rep.order) :
        rep.val[key].kind \in {"none", "dict", "list", "frame"}

\* C7: for a report whose sections are each absent, a mapping, a list of
\* records or a frame, the Word and the PDF renderer of app_adv.py complete
\* without raising and return a non-empty document.
C7_RenderCompletes ==
    (rvariant = "app_adv" /\ OfRenderableKinds(report))
        => /\ "Word" \in rendered => word.err = "" /\ word.doc # <<>>
           /\ "PDF" \in rendered => pdf.err = "" /\ pdf.doc # <<>>

IsPrefix(a, b) == Len(a) <= Len(b) /\ SubSeq(b, 1, Len(a)) = a

Pos(hs, title) == CHOOSE p \in 1..Len(hs) : hs[p] = title

\* Whenever the headings of two sections of the report are both in hs, the
\* heading of the section inserted first comes first.
OrderPreserved(v, rep, hs) ==
    \A i, j \in 1..Len(rep.order) :
        (/\ i < j
         /\ SectionTitle(v, rep.order[i]) \in Range(hs)
         /\ SectionTitle(v, rep.order[j]) \in Range(hs))
            => Pos(hs, SectionTitle(v, rep.order[i]))
                 < Pos(hs, SectionTitle(v, rep.order[j]))

\* The keys were inserted in the order the renderer writes its sections.
InFixedOrder(v, rep) ==
    \A i, j \in 1..Len(rep.order) :
        i < j => \E p, q \in 1..Len(FixedOrder(v)) :
                    /\ p < q
                    /\ FixedOrder(v)[p] = rep.order[i]
                    /\ FixedOrder(v)[q] = rep.order[j]

ExpectedHeadings(v, rep) ==
    LET keys == CASE v = "app"  -> rep.order
                  [] v = "app3" -> SelectSeq(App3Keys,
                                             LAMBDA k : Present(rep, k))
                  [] OTHER      -> FixedOrder(v)
    IN  [i \in 1..Len(keys) |-> SectionTitle(v, keys[i])]

HeadingsAsExpected(v, rep, res, hs) ==
    /\ IsPrefix(hs, ExpectedHeadings(v, rep))
    /\ res.err = "" => hs = ExpectedHeadings(v, rep)
    /\ (v = "app" \/ InFixedOrder(v, rep)) => OrderPreserved(v, rep, hs)

Respell(rep, key) ==
    LET items == rep.val["relationships"].items
        respelt(f) ==
            LET old == CHOOSE k \in FromTableKeys : k \in DOMAIN f
            IN  (key :> f[old])
                @@ [k \in DOMAIN f \ FromTableKeys |-> f[k]]
    IN  [rep EXCEPT !.val["relationships"].items =
            [i \in 1..Len(items) |->
                [items[i] EXCEPT !.f = respelt(items[i].f)]]]

\* The relationships of the report carry the source table under exactly one
\* of the spellings.
HasFromTable(rep) ==
    /\ "relationships" \in Range(rep.order)
    /\ rep.val["relationships"].items # <<>>
    /\ \A i \in 1..Len(rep.val["relationships"].items) :
           Cardinality(DOMAIN rep.val["relationships"].items[i].f
                       \cap FromTableKeys) = 1

WordOf(v, rep) ==
    CASE v = "app"     -> App_create_word_documentation(rep)
      [] v = "app2"    -> App2_generate_documentation_Word(rep)
      [] v = "app_adv" -> Adv_generate_word_doc(rep)
      [] OTHER         -> App3_generate_word_doc(rep)

\* C9: a report whose relationship records carry the source table under one
\* spelling of the key renders to the same Word document as the report that
\* carries it under any other accepted spelling.
C9_SpellingIndependent ==
    (rvariant \in {"app_adv", "app2", "app3"} /\ "Word" \in rendered
     /\ HasFromTable(report))
        => \A key \in FromTableKeys :
               WordOf(rvariant, Respell(report, key)) = word

\* C10: a record that lacks a field a renderer reads never makes the Word
\* or the PDF renderer of app3.py or app_adv.py raise KeyError; the renderer
\* writes "N/A" and continues.
C10_MissingFieldIsNA ==
    rvariant \in {"app3", "app_adv"}
        => /\ "Word" \in rendered => word.err # "KeyError"
           /\ "PDF" \in rendered => pdf.err # "KeyError"

\* C11: in a PDF drawn by app_adv.py generate_pdf_doc, every line is drawn
\* on the page: its y position is not below the bottom of the page and not
\* above its top, however many lines the report needs.
C11_LinesWithinPage ==
    (rvariant = "app_adv" /\ "PDF" \in rendered)
        => \A i \in 1..Len(pdf.doc) :
              /\ 0 <= y_position(pdf.doc, i)
              /\ y_position(pdf.doc, i) <= PageHeight

\* C12: in a PDF that app_adv.py generate_pdf_doc has drawn, the expression
\* of every record of Power Query Code, DAX Tables and DAX Measures appears
\* in full, whatever its length.
C12_FullTextInPdf ==
    (rvariant = "app_adv" /\ "PDF" \in rendered /\ pdf.err = "")
        => \A key \in {"power_query", "dax_tables", "dax_measures"} :
              LET c == ReportGet(report, key)
              IN  \A i \in 1..Len(c.items) :
                     FieldTruthy(c.items[i].f, "expression")
                        => \E j \in 1..Len(pdf.doc) :
                              pdf.doc[j].x = c.items[i].f["expression"]

\* The results of the sections of a script's Word renderer, each taken on
\* its own, in the order the renderer writes them.
WordSections(v, rep) ==
    CASE v = "app_adv" -> AdvWordSections(rep)
      [] v = "app3"    -> App3WordSections(rep)
      [] OTHER         -> App2WordSections(rep)

\* part occurs in text.
Contains(text, part) ==
    \E o \in 0..(Len(text) - Len(part)) :
        SubSeq(text, o + 1, o + Len(part)) = part

\* C13: when a section of a Word document raises while app_adv.py, app3.py
\* or app2.py renders it, the renderer still returns a document, the
\* document has a paragraph carrying the error's message, and it holds
\* everything the sections that do not raise add, whether they come before
\* or after the one that raised.
C13_ErrorContained ==
    (rvariant \in {"app_adv", "app3", "app2"} /\ "Word" \in rendered)
        => LET ss == WordSections(rvariant, report)
           IN  \A i \in 1..Len(ss) :
                  ss[i].err # ""
                     => /\ word.err = ""
                        /\ \E j \in 1..Len(word.doc) :
                              /\ word.doc[j].t = "p"
                              /\ Contains(word.doc[j].x, ss[i].err)
                        /\ \A k \in 1..Len(ss) :
                              ss[k].err = ""
                                 => Range(ss[k].doc) \subseteq Range(word.doc)

\* C14: in app2.py, when finalizing the chosen document fails (doc.save of
\* the Word document or doc.build of the PDF raises), no download is offered
\* for it and, when the request has finished, a message carrying the
\* failure has been shown.
C14_NoDownloadAfterFinalizeFailure ==
    (variant = "app2" /\ failedAt \in {"doc.save", "doc.build"})
        => /\ downloads = {}
           /\ pc = "done" => \E m \in shown : m[2] = failedAt

\* A request of app2.py has finished after doc.build failed.
C14_Witness ==
    variant = "app2" /\ pc = "done" /\ failedAt = "doc.build"

\* C15: in app.py and app2.py, when opening the uploaded file raises, the
\* extraction returns None, the message shown carries the message of that
\* exception, and the request offers no document.
C15_OpenFailureFailsRequest ==
    (variant \in {"app", "app2"} /\ failedAt = "open")
        => /\ extracted = "none"
           /\ \E m \in shown : m[2] = "open"
           /\ downloads = {}
           /\ ~docWritten

\* A request of app2.py has finished after PBIXRay(path) raised.
C15_Witness ==
    variant = "app2" /\ failedAt = "open" /\ pc = "done"

\* C16: when a request has finished and an exception was raised and caught
\* on its way, one of the messages shown carries the message of that
\* exception.
C16_CaughtErrorsKeepMessage ==
    (pc = "done" /\ failedAt # "" /\ ~uncaught)
        => \E m \in shown : m[2] = failedAt

C18_RenderersLeaveReport ==
    [][report' = report]_vars

\* A report with sections has been rendered to Word and to PDF, one of
\* them twice.
C18_Witness ==
    /\ rendered = {"Word", "PDF"}
    /\ again # {}
    /\ report.order # <<>>
    /\ rvariant \in {"app_adv", "app3", "app2"}

\* C19: a request offers a download or writes a document only if its
\* extraction returned a report, and the documents a request generates are
\* built from the upload of that same request.
C19_RenderAfterOwnExtraction ==
    /\ (downloads # {} \/ docWritten) => extracted = "report"
    /\ \A r \in Requests : cdoc[r] # "" => cdoc[r] = cup[r]

\* The first part on its own: what one request does after its extraction.
C19_RenderAfterExtraction ==
    (downloads # {} \/ docWritten) => extracted = "report"

\* Every table record has a name and a non-empty list of columns, each with
\* a name and a dataType.
TablesWithTypedColumns(c) ==
    /\ c.kind = "list" /\ c.items # <<>>
    /\ \A i \in 1..Len(c.items) :
          /\ "name" \in DOMAIN c.items[i].f
          /\ c.items[i].hasCols /\ c.items[i].cols # <<>>
          /\ \A k \in 1..Len(c.items[i].cols) :
                {"name", "dataType"} \subseteq DOMAIN c.items[i].cols[k].f

\* C20: for a report whose "tables" section holds tables with a name and
\* typed columns, the Word document of app3.py has the level-1 heading
\* "Tables", for each table the sub-heading "Table: <name>" and a table with
\* exactly one row per column, reading "<column name> (<dataType>)".
C20_TablesAsWordTable ==
    (/\ rvariant = "app3" /\ "Word" \in rendered
     /\ ReportHas(report, "tables")
     /\ TablesWithTypedColumns(ReportGet(report, "tables")))
        => LET c == ReportGet(report, "tables")
               InDoc(e) == \E j \in 1..Len(word.doc) : word.doc[j] = e
           IN  /\ InDoc(H(1, <<"Tables">>))
               /\ \A i \in 1..Len(c.items) :
                     /\ InDoc(H(2, <<"Table: ", c.items[i].f["name"]>>))
                     /\ InDoc(Tbl([k \in 1..Len(c.items[i].cols) |->
                                     <<Cat(<<c.items[i].cols[k].f["name"],
                                             " (",
                                             c.items[i].cols[k].f["dataType"],
                                             ")">>)>>]))

\* C21: whenever the Word renderer of app2.py, app3.py or app_adv.py has
\* finished and a section of the report is tabular (a list of records or a
\* frame) and non-empty, the document holds a table for it: a header row and
\* one row per record, so a table element with as many rows as the section
\* has records plus one.
C21_TabularAsTable ==
    (rvariant \in {"app2", "app3", "app_adv"}
     /\ "Word" \in rendered /\ word.err = "")
        => \A key \in Range(report.order) :
              LET c == ReportGet(report, key)
              IN  (c.kind \in {"list", "frame"} /\ c.items # <<>>)
                     => \E j \in 1..Len(word.doc) :
                           /\ word.doc[j].t = "table"
                           /\ Len(word.doc[j].rows) = Len(c.items) + 1

\* C22: the report analyze_pbix_file returns has as many tables, as many
\* columns in each table, as many measures and as many relationships as the
\* analyzer returned, also when names repeat.
C22_ExtractionKeepsEveryEntry ==
    (apc \in {"insights", "done"} /\ aerr # "Exception")
        => /\ Len(analysis_results.tables) = Len(pbix_model.tables)
           /\ \A i \in 1..Len(pbix_model.tables) :
                 \E j \in 1..Len(analysis_results.tables) :
                    /\ analysis_results.tables[j].key
                           = pbix_model.tables[i].name
                    /\ Len(analysis_results.tables[j].value.columns)
                           = Len(pbix_model.tables[i].columns)
           /\ Len(analysis_results.measures) = Len(pbix_model.measures)
           /\ Len(analysis_results.relationships)
                  = Len(pbix_model.relationships)

\* C25: analyze_performance_and_complexity completes for every analysis
\* result, also when a measure's expression is None; a measure is in
\* complex_measures exactly when its expression is longer than 100, a
\* column is in complex_calculated_columns exactly when it has a non-empty
\* expression longer than 100, and each entry carries the expression's length.
C25_ComplexityFindings ==
    (apc = "done" /\ aerr # "Exception")
        => /\ aerr = ""
           /\ \A i \in 1..Len(analysis_results.measures) :
                 LET e == analysis_results.measures[i]
                 IN  /\ (\E k \in 1..Len(performance_insights.complex_measures) :
                            performance_insights.complex_measures[k].name = e.key)
                        <=> (e.value.expression # NoneVal
                             /\ Len(e.value.expression) > 100)
                     /\ \A k \in 1..Len(performance_insights.complex_measures) :
                           performance_insights.complex_measures[k].name = e.key
                              => performance_insights.complex_measures[k]
                                     .expression_length
                                 = Len(e.value.expression)
           /\ \A i \in 1..Len(analysis_results.tables) :
                 \A j \in 1..Len(analysis_results.tables[i].value.columns) :
                    LET t == analysis_results.tables[i]
                        c == t.value.columns[j]
                        found == performance_insights.complex_calculated_columns
                    IN  /\ (\E k \in 1..Len(found) :
                               found[k].table = t.key /\ found[k].column = c.key)
                           <=> (c.value.expression \notin {NoneVal, ""}
                                /\ Len(c.value.expression) > 100)
                        /\ \A k \in 1..Len(found) :
                              (found[k].table = t.key /\ found[k].column = c.key)
                                 => found[k].expression_length
                                        = Len(c.value.expression)

\* C26: whenever analyze_performance_and_complexity returns, its result has
\* exactly the five keys, many_to_many_without_bridge is empty, a table is
\* in large_tables exactly when its row_count is a number greater than
\* 100000, and in tables_with_many_columns exactly when it has more than 50
\* columns.
C26_TableFindings ==
    (apc = "done" /\ aerr = "")
        => /\ DOMAIN performance_insights
                 = {"complex_measures", "complex_calculated_columns",
                    "many_to_many_without_bridge", "large_tables",
                    "tables_with_many_columns"}
           /\ performance_insights.many_to_many_without_bridge = <<>>
           /\ \A i \in 1..Len(analysis_results.tables) :
                 LET t == analysis_results.tables[i]
                     large == performance_insights.large_tables
                     many == performance_insights.tables_with_many_columns
                 IN  /\ (\E k \in 1..Len(large) : large[k].name = t.key)
                        <=> (t.value.row_count.type \in {"int", "float"}
                             /\ t.value.row_count.n > 100000)
                     /\ (\E k \in 1..Len(many) : many[k].name = t.key)
                        <=> Len(t.value.columns) > 50

\* A model with a table of 100001 rows and a table of 51 columns has been
\* analysed and both are reported.
C26_Witness ==
    /\ apc = "done" /\ aerr = ""
    /\ Len(analysis_results.tables) = 2
    /\ Len(performance_insights.large_tables) = 1
    /\ Len(performance_insights.tables_with_many_columns) = 1

\* The output formats of the specification with their file extensions and
\* MIME types.
Formats == {"word", "pdf", "spreadsheet"}

Extension(fmt) ==
    CASE fmt = "word" -> ".docx"
      [] fmt = "pdf" -> ".pdf"
      [] fmt = "spreadsheet" -> ".xlsx"

MimeType(fmt) ==
    CASE fmt = "word" ->
           "application/vnd.openxmlformats-officedocument.wordprocessingml.document"
      [] fmt = "pdf" -> "application/pdf"
      [] fmt = "spreadsheet" ->
           "application/vnd.openxmlformats-officedocument.spreadsheetml.sheet"

EndsWith(s, suffix) ==
    /\ Len(s) >= Len(suffix)
    /\ SubSeq(s, Len(s) - Len(suffix) + 1, Len(s)) = suffix

\* Every download offered carries the extension and the MIME type of the
\* format of its content.
DownloadsWellTyped ==
    \A d \in downloads :
       /\ d.data \in Formats
       /\ EndsWith(d.file_name, Extension(d.data))
       /\ d.mime = MimeType(d.data)

\* C23: every download offered carries the extension and the MIME type of
\* the format of its content, and a request of app_adv.py or app3.py (which
\* offer all their formats at once) that ended without a failure has
\* offered a buffer for each of the three formats Word, PDF and Spreadsheet.
C23_EveryFormatOffered ==
    /\ DownloadsWellTyped
    /\ (variant \in {"app_adv", "app3"} /\ pc = "done" /\ extracted = "report"
        /\ failedAt = "" /\ exc = "" /\ ~uncaught /\ downloads # {})
          => \A fmt \in Formats : \E d \in downloads : d.data = fmt

\* C24: generate_documentation of app2.py never raises: whenever it has
\* been called for 'Word' or for 'PDF' it has returned, a buffer or None,
\* and no exception has left it.
C24_GenerateNeverRaises ==
    rvariant = "app2"
        => /\ "Word" \in rendered => word.err = ""
           /\ "PDF" \in rendered => pdf.err = ""

\* The report holds no M code: the key is absent, or its value is None, the
\* empty string or only whitespace.
NoMCode(rep) ==
    \/ ~ReportHas(rep, "power_query")
    \/ ReportGet(rep, "power_query").kind = "none"
    \/ /\ ReportGet(rep, "power_query").kind = "str"
       /\ ReportGet(rep, "power_query").text \in {"", " "}

\* The document shows the placeholder of the Power Query section and no
\* "M Code:" block.
PowerQueryPlaceholder(doc) ==
    /\ \E j \in 1..Len(doc) : doc[j].x = "No Power Query (M Code) found."
    /\ \A j \in 1..Len(doc) : doc[j].x # "M Code:"

\* The document shows the "M Code:" block and not the placeholder.
PowerQueryBlock(doc) ==
    /\ \E j \in 1..Len(doc) : doc[j].x = "M Code:"
    /\ \A j \in 1..Len(doc) : doc[j].x # "No Power Query (M Code) found."

\* C27: a document generate_documentation of app2.py has returned, Word or
\* PDF, shows the placeholder "No Power Query (M Code) found." and no
\* "M Code:" block whenever the report holds no M code (key absent, None,
\* empty or whitespace), and the "M Code:" block only when it holds M code.
C27_PowerQueryPlaceholder ==
    rvariant = "app2"
        => /\ ("Word" \in rendered /\ word.err = "")
                 => IF NoMCode(report) THEN PowerQueryPlaceholder(word.doc)
                                       ELSE PowerQueryBlock(word.doc)
           /\ ("PDF" \in rendered /\ pdf.err = "")
                 => IF NoMCode(report) THEN PowerQueryPlaceholder(pdf.doc)
                                       ELSE PowerQueryBlock(pdf.doc)

\* The placeholder paragraphs of a document, in order.
PlaceholdersOf(doc) ==
    LET ps == SelectSeq(doc, LAMBDA e :
                  e.x \in Placeholders \cup {"No columns found for this table."})
    IN  [i \in 1..Len(ps) |-> ps[i].x]

\* C28: when the Word renderer and the PDF renderer of app2.py, or of
\* app_adv.py, have both run on the same report, both have returned or both
\* have raised the same exception, and the two documents carry the same
\* section headings in the same order and the same placeholders in the same
\* order: each section is shown with content in both or with the same
\* placeholder text in both.
C28_WordAndPdfAgree ==
    (rvariant \in {"app2", "app_adv"} /\ {"Word", "PDF"} \subseteq rendered)
        => /\ word.err = pdf.err
           /\ Headings(word.doc) = PdfHeadings(pdf.doc)
           /\ PlaceholdersOf(word.doc) = PlaceholdersOf(pdf.doc)

\* Both renderers of app_adv.py have returned a document for a report with
\* a section that has content and a section that has none.
C28_Witness ==
    /\ rvariant = "app_adv" /\ {"Word", "PDF"} \subseteq rendered
    /\ word.err = "" /\ pdf.err = ""
    /\ Len(PlaceholdersOf(word.doc)) \in 1..6
    /\ Len(Headings(word.doc)) = 7

\* app3.py lines 503-521 applied to the report: the titles in the sidebar.
Sidebar(rep) ==
    LET keys == SidebarSections({k \in Range(App3Keys) : ReportHas(rep, k)},
                                {k \in Range(App3Keys) : Present(rep, k)})
    IN  [i \in 1..Len(keys) |-> SectionTitle("app3", keys[i])]

\* C29: in app3.py the sidebar list, the Word document and the PDF document
\* show the same sections in the same order: once a renderer has run on a
\* parsed result, the section headings of its output are the titles of the
\* sidebar list, one for every key that is present with a non-empty value.
C29_SidebarWordPdfAgree ==
    rvariant = "app3"
        => /\ "Word" \in rendered => Headings(word.doc) = Sidebar(report)
           /\ "PDF" \in rendered => PdfHeadings(pdf.doc) = Sidebar(report)

\* C30: in app_adv.py main, once the temporary file has been created,
\* os.remove is applied to it exactly once by the time the request has
\* finished and never to a path that does not exist; on the success path the
\* removal happens after the attributes have been read and before the first
\* renderer starts.
C30_RemovedExactlyOnce ==
    variant = "app_adv"
        => /\ removes <= 1
           /\ (created /\ pc = "done") => removes = 1
           /\ exc # "FileNotFoundError"
           /\ \A m \in shown : m[2] # "FileNotFoundError"
           /\ pc \in {"word", "pdf"}
                 => /\ removes = 1
                    /\ extracted = "report"
                    /\ TmpPath(variant) \notin files

====
